---- MODULE Spec2Model ----
(***************************************************************************)
(* Verification model of the store-health dashboard (anandal/storehealthdash).*)
(*                                                                         *)
(* The model covers the aggregation and scoring layer of the dashboard:    *)
(*   - the get_filtered_* functions of the analytics components,           *)
(*   - generate_business_health_data (scores, clamping, alerts) and the    *)
(*     BusinessHealth rows built by generate_enhanced_data,                *)
(*   - the heatmap pivots of the theft, traffic and employee components,   *)
(*   - the compliance score of show_recommendations,                       *)
(*   - the theft KPIs of the theft page and of the API summary,            *)
(*   - the database tables, the handlers of basic_api, and                 *)
(*     save_data_to_db / load_data_from_db,                                *)
(*   - the member counts of the two rewards generators,                    *)
(*   - the campaign records of the generators and of POST /api/campaigns,  *)
(*   - the correlation insight of show_combined_analysis,                  *)
(*   - the date query of GET /api/theft-incidents of api.py,               *)
(*   - the runs of the app.py script: login, sidebar, navigation, the      *)
(*     pages and the buttons of the Database Admin page.                   *)
(*                                                                         *)
(* Time is counted in whole hours since the midnight that starts day 0     *)
(* (a Monday).  A calendar date d is the integer d; a timestamp is the     *)
(* integer d * HoursPerDay + h.  Scores are fixed-point numbers with Scale *)
(* units per point, so that the weights 0.25/0.25/0.30/0.20 are exact.     *)
(***************************************************************************)
EXTENDS Integers, Sequences, FiniteSets, TLC

VARIABLES
    theft_data,             \* st.session_state.theft_data
    rewards_data,           \* st.session_state.rewards_data
    daily_traffic,          \* st.session_state.daily_traffic
    shift_usage_data,       \* st.session_state.shift_usage_data
    business_health,        \* st.session_state.business_health
    traffic_patterns,       \* st.session_state.traffic_patterns
    mobile_usage_patterns,  \* st.session_state.mobile_usage_patterns
    selected_stores,        \* st.session_state.selected_stores
    date_range,             \* st.session_state.date_range
    view,                   \* the function that ran last
    filtered,               \* the frame the last get_filtered_* call returned
    pivot_data,             \* pivot_data of the last show_heatmap_analysis
    store_pivot,            \* store_pivot of the last show_heatmap_analysis
    theft_pivot,            \* theft_pivot of the last show_combined_analysis
    traffic_pivot,          \* traffic_pivot of the last show_combined_analysis
    store_scores,           \* the compliance table of show_recommendations
    enhanced_health,        \* BusinessHealth objects built by generate_enhanced_data
    initialized,            \* 'initialized' in st.session_state
    raw_health,             \* the scores of each health record before clamping
    store_info,             \* st.session_state.store_info
    campaign_performance,   \* st.session_state.campaign_performance
    db,                     \* the committed rows of each database table, by id
    next_id,                \* the next serial id of each database table
    response,               \* what the last API or persistence call returned
    kpis,                   \* the metrics of the last show_theft_kpis
    enhanced_rewards,       \* RewardsData objects built by generate_enhanced_data
    enhanced_theft,         \* TheftIncident objects built by generate_enhanced_data
    enhanced_campaigns,     \* CampaignPerformance objects built by generate_enhanced_data
    user_role,              \* st.session_state.user_role
    selected_store,         \* st.session_state.selected_store
    active_module,          \* st.session_state.active_module
    show_demo_warning,      \* st.session_state.show_demo_warning
    insight,                \* the correlation message of show_combined_analysis
    messages,               \* the alerts the last run of the script displayed
    login_store             \* the store of the select box at the last Manager login

vars == <<theft_data, rewards_data, daily_traffic, shift_usage_data,
          business_health, traffic_patterns, mobile_usage_patterns,
          selected_stores, date_range, view, filtered, pivot_data,
          store_pivot, theft_pivot, traffic_pivot, store_scores,
          enhanced_health, initialized, raw_health, store_info,
          campaign_performance, db, next_id, response, kpis,
          enhanced_rewards, enhanced_theft, enhanced_campaigns, user_role,
          selected_store, active_module, show_demo_warning, insight,
          messages, login_store>>

session_data == <<theft_data, rewards_data, daily_traffic, shift_usage_data,
                  business_health, traffic_patterns, mobile_usage_patterns>>

selection == <<selected_stores, date_range>>

\* what the function that ran last computed
outputs == <<filtered, pivot_data, store_pivot, theft_pivot, traffic_pivot,
             store_scores>>

generator_state == <<initialized, raw_health, enhanced_health>>

\* the login, the navigation and what the pages keep between runs
page_state == <<user_role, selected_store, active_module, show_demo_warning,
                insight, messages, login_store>>

\* the state of the persistence layer, the API and the remaining generators
backend == <<store_info, campaign_performance, db, next_id, response, kpis,
             enhanced_rewards, enhanced_theft, enhanced_campaigns, page_state>>

(***************************************************************************)
(* Bounds of the model                                                     *)
(***************************************************************************)
MaxRows == 2            \* rows in a drawn time-series frame
NumHealthDays == 2      \* dates generate_business_health_data iterates over
NumEnhancedDays == 2    \* dates generate_enhanced_data iterates over

\* calendar days and hours of the day that occur in the drawn timestamps
Days == {0, 4}

SampleHours == {0, 12}

\* the first stores of the generator's store list
Stores == {"Downtown Mart", "Riverside Convenience"}

(***************************************************************************)
(* Generic helpers                                                         *)
(***************************************************************************)
NoValue == "none"

Range(s) == {s[i] : i \in 1..Len(s)}

SeqsUpTo(S, n) == UNION {[1..k -> S] : k \in 0..n}

Min(a, b) == IF a < b THEN a ELSE b

Max(a, b) == IF a > b THEN a ELSE b

(***************************************************************************)
(* Calendar                                                                *)
(***************************************************************************)
HoursPerDay == 24

day_order == <<"Monday", "Tuesday", "Wednesday", "Thursday", "Friday",
               "Saturday", "Sunday">>

Instants == {d * HoursPerDay + h : d \in Days, h \in SampleHours}

FirstInstant == CHOOSE t \in Instants : \A u \in Instants : t <= u

LastInstant == CHOOSE t \in Instants : \A u \in Instants : u <= t

\* Series.dt.hour / Timestamp.hour
dt_hour(ts) == ts % HoursPerDay

\* Series.dt.day_name() / Timestamp.day_name()
dt_day_name(ts) == day_order[((ts \div HoursPerDay) % 7) + 1]

\* A value held in date_range: a datetime.date (Custom period) or a
\* datetime.datetime (preset periods and the initial value).
DateValue(d) == <<"date", d>>

DateTimeValue(t) == <<"datetime", t>>

\* pd.Timestamp(x): a date becomes the midnight that starts it
pd_Timestamp(x) == IF x[1] = "date" THEN x[2] * HoursPerDay ELSE x[2]

\* the ranges the sidebar stores: start <= end, both dates or both datetimes
DateRanges ==
    {<<DateValue(p[1]), DateValue(p[2])>> :
        p \in {q \in Days \X Days : q[1] <= q[2]}}
    \cup
    {<<DateTimeValue(p[1]), DateTimeValue(p[2])>> :
        p \in {q \in Instants \X Instants : q[1] <= q[2]}}

(***************************************************************************)
(* Filter predicate: the get_filtered_* functions                          *)
(***************************************************************************)

\* df[df['store'].isin(stores)]
FilterStore(df, stores) == SelectSeq(df, LAMBDA r : r.store \in stores)

\* Each function reads its frame, the selection and the range from the
\* session state; they are parameters here.  The guard on date_range is
\* always taken: date_range is a 2-tuple in every state, which is truthy.

\* variant: the upper bound of the range is exclusive
get_filtered_theft_data_strict(data, stores, range) ==
    LET by_store == IF stores # {} THEN FilterStore(data, stores) ELSE data
    IN  SelectSeq(by_store, LAMBDA r :
            r.timestamp >= pd_Timestamp(range[1]) /\
            r.timestamp < pd_Timestamp(range[2]))

get_filtered_theft_data(data, stores, range) ==
    LET by_store == IF stores # {} THEN FilterStore(data, stores) ELSE data
    IN  SelectSeq(by_store, LAMBDA r :
            r.timestamp >= pd_Timestamp(range[1]) /\
            r.timestamp <= pd_Timestamp(range[2]))

get_filtered_health_data(data, stores, range) ==
    LET by_store == IF stores # {} THEN FilterStore(data, stores) ELSE data
    IN  SelectSeq(by_store, LAMBDA r :
            r.date >= pd_Timestamp(range[1]) /\
            r.date <= pd_Timestamp(range[2]))

\* variant: the guard on an empty selection is missing
get_filtered_rewards_data_noguard(data, stores, range) ==
    LET by_store == FilterStore(data, stores)
    IN  SelectSeq(by_store, LAMBDA r :
            r.date >= pd_Timestamp(range[1]) /\
            r.date <= pd_Timestamp(range[2]))

get_filtered_rewards_data(data, stores, range) ==
    LET by_store == IF stores # {} THEN FilterStore(data, stores) ELSE data
    IN  SelectSeq(by_store, LAMBDA r :
            r.date >= pd_Timestamp(range[1]) /\
            r.date <= pd_Timestamp(range[2]))

get_filtered_daily_traffic(data, stores, range) ==
    LET by_store == IF stores # {} THEN FilterStore(data, stores) ELSE data
    IN  SelectSeq(by_store, LAMBDA r :
            r.date >= pd_Timestamp(range[1]) /\
            r.date <= pd_Timestamp(range[2]))

get_filtered_shift_data(data, stores, range) ==
    LET by_store == IF stores # {} THEN FilterStore(data, stores) ELSE data
    IN  SelectSeq(by_store, LAMBDA r :
            r.date >= pd_Timestamp(range[1]) /\
            r.date <= pd_Timestamp(range[2]))

(***************************************************************************)
(* Specification of the filters: the frames are drawn, the sidebar sets    *)
(* the selection and the range, and each get_filtered_* function is run.   *)
(***************************************************************************)

\* a drawn row: the store and the moment of a record
FilterRows == [store : Stores, day : Days, hour : SampleHours]

\* generate_theft_data: the timestamp is one of the hourly points
TheftOfRow(w) ==
    LET ts == w.day * HoursPerDay + w.hour
    IN  [store |-> w.store, timestamp |-> ts,
         day_of_week |-> dt_day_name(ts), hour |-> dt_hour(ts)]

\* generate_rewards_data: pd.date_range over calendar dates, so midnights
RewardsOfRow(w) == [store |-> w.store, date |-> w.day * HoursPerDay]

\* generate_traffic_data, generate_employee_data and
\* generate_business_health_data: pd.date_range from datetime.now() back,
\* so each date keeps the time of day of the run
DatedOfRow(w) == [store |-> w.store, date |-> w.day * HoursPerDay + w.hour]

\* the names of the database tables
Tables == {"stores", "theft_incidents", "rewards_data", "campaign_performance",
           "traffic_data", "traffic_patterns", "employee_data",
           "mobile_usage_patterns", "business_health"}

\* a table without rows
EmptyTable == [i \in {} |-> NoValue]

\* Base.metadata.create_all on a new database: every table empty, every
\* serial at 1
EmptyDb == [t \in Tables |-> EmptyTable]

FirstIds == [t \in Tables |-> 1]

\* app.py, session initialisation: nobody is logged in, no store is
\* assigned, the first module is active; no warning and no message shown
InitPage ==
    /\ user_role = NoValue
    /\ selected_store = NoValue
    /\ active_module = "Global Command Center"
    /\ show_demo_warning = FALSE
    /\ insight = [value |-> 0, narrative |-> NoValue]
    /\ messages = {}
    /\ login_store = NoValue

\* no store information, no committed row, no call made yet
InitBackend ==
    /\ store_info = <<>>
    /\ campaign_performance = <<>>
    /\ db = EmptyDb
    /\ next_id = FirstIds
    /\ response = NoValue
    /\ kpis = NoValue
    /\ enhanced_rewards = <<>>
    /\ enhanced_theft = <<>>
    /\ enhanced_campaigns = <<>>
    /\ InitPage

\* app.py: the selection and the range of a fresh session
InitSelection ==
    /\ selected_stores = Stores
    /\ date_range = <<DateTimeValue(FirstInstant), DateTimeValue(LastInstant)>>

InitOutputs ==
    /\ view = "init"
    /\ filtered = NoValue
    /\ pivot_data = NoValue
    /\ store_pivot = NoValue
    /\ theft_pivot = NoValue
    /\ traffic_pivot = NoValue
    /\ store_scores = NoValue

InitFilter ==
    /\ \E rows \in SeqsUpTo(FilterRows, MaxRows) :
          /\ theft_data = [i \in 1..Len(rows) |-> TheftOfRow(rows[i])]
          /\ rewards_data = [i \in 1..Len(rows) |-> RewardsOfRow(rows[i])]
          /\ daily_traffic = [i \in 1..Len(rows) |-> DatedOfRow(rows[i])]
          /\ shift_usage_data = [i \in 1..Len(rows) |-> DatedOfRow(rows[i])]
          /\ business_health = [i \in 1..Len(rows) |-> DatedOfRow(rows[i])]
    /\ traffic_patterns = <<>>
    /\ mobile_usage_patterns = <<>>
    /\ initialized = TRUE
    /\ raw_health = <<>>
    /\ enhanced_health = <<>>
    /\ InitBackend
    /\ InitSelection
    /\ InitOutputs

\* The function named name ran and computed these values; what an earlier
\* function had computed is gone with its run.
Ran(name, frame, pivot, spivot, tpivot, trpivot, scores) ==
    /\ view' = name
    /\ filtered' = frame
    /\ pivot_data' = pivot
    /\ store_pivot' = spivot
    /\ theft_pivot' = tpivot
    /\ traffic_pivot' = trpivot
    /\ store_scores' = scores

\* A run of the script after the time period was changed: the sidebar code
\* stores the chosen range.
SelectTimePeriod(range) ==
    /\ date_range' = range
    /\ Ran("sidebar", NoValue, NoValue, NoValue, NoValue, NoValue, NoValue)
    /\ UNCHANGED <<session_data, selected_stores, generator_state, backend>>

\* A run of the script after the store selection was changed.
SelectStores(stores) ==
    /\ selected_stores' = stores
    /\ Ran("sidebar", NoValue, NoValue, NoValue, NoValue, NoValue, NoValue)
    /\ UNCHANGED <<session_data, date_range, generator_state, backend>>

Filtered(name, frame) ==
    /\ Ran(name, frame, NoValue, NoValue, NoValue, NoValue, NoValue)
    /\ UNCHANGED <<session_data, selection, generator_state, backend>>

RunFilteredTheft ==
    Filtered("get_filtered_theft_data",
             get_filtered_theft_data(theft_data, selected_stores, date_range))

RunFilteredHealth ==
    Filtered("get_filtered_health_data",
             get_filtered_health_data(business_health, selected_stores, date_range))

RunFilteredRewards ==
    Filtered("get_filtered_rewards_data",
             get_filtered_rewards_data(rewards_data, selected_stores, date_range))

RunFilteredDailyTraffic ==
    Filtered("get_filtered_daily_traffic",
             get_filtered_daily_traffic(daily_traffic, selected_stores, date_range))

RunFilteredShift ==
    Filtered("get_filtered_shift_data",
             get_filtered_shift_data(shift_usage_data, selected_stores, date_range))

NextFilter ==
    \/ \E range \in DateRanges : SelectTimePeriod(range)
    \/ \E stores \in SUBSET Stores : SelectStores(stores)
    \/ RunFilteredTheft
    \/ RunFilteredHealth
    \/ RunFilteredRewards
    \/ RunFilteredDailyTraffic
    \/ RunFilteredShift

SpecFilter == InitFilter /\ [][NextFilter]_vars

FilterViews == {"get_filtered_theft_data", "get_filtered_health_data",
                "get_filtered_rewards_data", "get_filtered_daily_traffic",
                "get_filtered_shift_data"}

\* the frame a filter function reads
SourceOf(v) ==
    CASE v = "get_filtered_theft_data" -> theft_data
      [] v = "get_filtered_health_data" -> business_health
      [] v = "get_filtered_rewards_data" -> rewards_data
      [] v = "get_filtered_daily_traffic" -> daily_traffic
      [] v = "get_filtered_shift_data" -> shift_usage_data

\* the date of a record: its timestamp for a theft incident
TimeOf(r) == IF "timestamp" \in DOMAIN r THEN r.timestamp ELSE r.date

\* indices of the records with store in S and start <= time <= end
KeptIdx(data, S, range) ==
    {j \in 1..Len(data) :
        /\ data[j].store \in S
        /\ pd_Timestamp(range[1]) <= TimeOf(data[j])
        /\ TimeOf(data[j]) <= pd_Timestamp(range[2])}

NthSmallest(K, i) == CHOOSE x \in K : Cardinality({y \in K : y < x}) = i - 1

\* res holds exactly the records of data at the indices K, in their order
IsExactSubsequence(res, data, K) ==
    /\ Len(res) = Cardinality(K)
    /\ \A i \in 1..Len(res) : res[i] = data[NthSmallest(K, i)]

\* C1: with a non-empty selection S and a range [start, end], every
\* get_filtered_* function returns exactly the records with store in S and
\* start <= date <= end (timestamp for theft incidents), both bounds
\* inclusive, in their original relative order.
C1_FilterExact ==
    (view \in FilterViews /\ selected_stores # {}) =>
        IsExactSubsequence(filtered, SourceOf(view),
                           KeptIdx(SourceOf(view), selected_stores, date_range))

\* C1 witness: the theft filter kept a record whose timestamp is the end of
\* the range and dropped one of a selected store that lies after it.
C1_Witness ==
    /\ view = "get_filtered_theft_data"
    /\ selected_stores # {}
    /\ Len(theft_data) = 2
    /\ Len(filtered) = 1
    /\ filtered[1].timestamp = pd_Timestamp(date_range[2])
    /\ \E j \in 1..2 : /\ theft_data[j].store \in selected_stores
                       /\ theft_data[j].timestamp > pd_Timestamp(date_range[2])
    /\ selected_stores # Stores

\* the range covers every moment of the data
IsWidest(range) ==
    \A t \in Instants : pd_Timestamp(range[1]) <= t /\ t <= pd_Timestamp(range[2])

\* the result of the function named v on the current frames
ApplyFilter(v, S, range) ==
    CASE v = "get_filtered_theft_data" ->
            get_filtered_theft_data(theft_data, S, range)
      [] v = "get_filtered_health_data" ->
            get_filtered_health_data(business_health, S, range)
      [] v = "get_filtered_rewards_data" ->
            get_filtered_rewards_data(rewards_data, S, range)
      [] v = "get_filtered_daily_traffic" ->
            get_filtered_daily_traffic(daily_traffic, S, range)
      [] v = "get_filtered_shift_data" ->
            get_filtered_shift_data(shift_usage_data, S, range)

\* C2: with an empty selection no store predicate is applied: the result is
\* the one obtained with all store names, and with the widest range it is
\* the whole frame.
C2_EmptyMeansAll ==
    (view \in FilterViews /\ selected_stores = {}) =>
        /\ filtered = ApplyFilter(view, Stores, date_range)
        /\ IsWidest(date_range) => filtered = SourceOf(view)

\* C2 witness: the rewards filter ran with an empty selection and the
\* widest range on a frame with records of two stores.
C2_Witness ==
    /\ view = "get_filtered_rewards_data"
    /\ selected_stores = {}
    /\ IsWidest(date_range)
    /\ Len(filtered) = 2
    /\ filtered[1].store # filtered[2].store

(***************************************************************************)
(* Health-score derivation: generate_business_health_data                  *)
(***************************************************************************)

\* a score of p whole points in fixed point (hundredths of a point)
Pt(p) == p * 100

\* the weights of overall_score, in percent
Weights == [theft |-> 25, rewards |-> 25, traffic |-> 30, employee |-> 20]

\* variant: all four weights are 0.25
overall_score_evenly(theft_score, rewards_score, traffic_score, employee_score) ==
    (25 * theft_score + 25 * rewards_score + 25 * traffic_score +
     25 * employee_score) \div 100

\* 0.25 * theft_score + 0.25 * rewards_score + 0.3 * traffic_score +
\* 0.2 * employee_score; exact on whole points
overall_score(theft_score, rewards_score, traffic_score, employee_score) ==
    (Weights.theft * theft_score + Weights.rewards * rewards_score +
     Weights.traffic * traffic_score + Weights.employee * employee_score) \div 100

\* variant: only the lower bound is enforced
Clamp_lower(x) == Max(x, 0)

\* min(max(x, 0), 100)
Clamp(x) == Min(Max(x, 0), Pt(100))

AlertTexts == {"High theft incidents", "Low rewards program performance",
               "Concerning drop in store traffic",
               "Excessive employee mobile usage"}

\* variant: the tests form one if/elif chain
HealthAlerts_elif(theft_score, rewards_score, traffic_score, employee_score) ==
    IF theft_score < Pt(50) THEN <<"High theft incidents">>
    ELSE IF rewards_score < Pt(50) THEN <<"Low rewards program performance">>
    ELSE IF traffic_score < Pt(40) THEN <<"Concerning drop in store traffic">>
    ELSE IF employee_score < Pt(45) THEN <<"Excessive employee mobile usage">>
    ELSE <<>>

\* the alerts list, built by four independent tests on the raw scores
HealthAlerts(theft_score, rewards_score, traffic_score, employee_score) ==
    LET a1 == IF theft_score < Pt(50)
              THEN <<"High theft incidents">> ELSE <<>>
        a2 == IF rewards_score < Pt(50)
              THEN Append(a1, "Low rewards program performance") ELSE a1
        a3 == IF traffic_score < Pt(40)
              THEN Append(a2, "Concerning drop in store traffic") ELSE a2
        a4 == IF employee_score < Pt(45)
              THEN Append(a3, "Excessive employee mobile usage") ELSE a3
    IN  a4

\* The raw scores the generator can draw for one record, in whole points:
\* <<theft, rewards, traffic, employee>>.  Each is a normal draw times
\* factors, so any value can occur, below 0 and above 100 included.
RawDraws ==
    {<<t, r, tr, e>> : t \in {49, 50}, r \in {49, 50}, tr \in {39, 40},
                       e \in {44, 45}}
    \cup {<<x, x, x, x>> : x \in {-10, 0, 100, 120}}
    \cup {<<120, 60, 70, 90>>, <<-10, 120, 120, 120>>, <<80, 80, -10, 120>>}

\* the stores and dates the generator iterates over, in its order
HealthStores == <<"Downtown Mart">>

HealthSlots == {<<s, d>> : s \in 1..Len(HealthStores), d \in 1..NumHealthDays}

SlotOf(i) == <<((i - 1) \div NumHealthDays) + 1, ((i - 1) % NumHealthDays) + 1>>

\* the time of day of the run, which pd.date_range keeps in every date
RunHour == LastInstant % HoursPerDay

HealthDate(d) == (d - 1) * HoursPerDay + RunHour

\* the scores of one iteration before clamping
RawHealth(draw) ==
    [theft_score |-> Pt(draw[1]), rewards_score |-> Pt(draw[2]),
     traffic_score |-> Pt(draw[3]), employee_score |-> Pt(draw[4]),
     overall_score |-> overall_score(Pt(draw[1]), Pt(draw[2]), Pt(draw[3]),
                                     Pt(draw[4]))]

\* the record one iteration appends
HealthRecord(store, date, raw) ==
    [store |-> store, date |-> date,
     overall_health |-> Clamp(raw.overall_score),
     theft_score |-> Clamp(raw.theft_score),
     rewards_score |-> Clamp(raw.rewards_score),
     traffic_score |-> Clamp(raw.traffic_score),
     employee_score |-> Clamp(raw.employee_score),
     alerts |-> HealthAlerts(raw.theft_score, raw.rewards_score,
                             raw.traffic_score, raw.employee_score)]

\* generate_business_health_data draws the scores of every store and date
\* and stores the frame.
generate_business_health_data(draws) ==
    /\ raw_health' = [i \in 1..Cardinality(HealthSlots) |->
                        RawHealth(draws[SlotOf(i)])]
    /\ business_health' = [i \in 1..Cardinality(HealthSlots) |->
                        HealthRecord(HealthStores[SlotOf(i)[1]],
                                     HealthDate(SlotOf(i)[2]),
                                     RawHealth(draws[SlotOf(i)]))]
    /\ view' = "generate_business_health_data"
    /\ UNCHANGED <<theft_data, rewards_data, daily_traffic, shift_usage_data,
                   traffic_patterns, mobile_usage_patterns, selection,
                   outputs, enhanced_health, backend>>

\* the session before its first script run
InitFresh ==
    /\ theft_data = <<>>
    /\ rewards_data = <<>>
    /\ daily_traffic = <<>>
    /\ shift_usage_data = <<>>
    /\ business_health = <<>>
    /\ traffic_patterns = <<>>
    /\ mobile_usage_patterns = <<>>
    /\ initialized = FALSE
    /\ raw_health = <<>>
    /\ enhanced_health = <<>>
    /\ InitBackend
    /\ InitSelection
    /\ InitOutputs

\* The first run of the script in a session generates the demo data.
SessionInit ==
    /\ ~initialized
    /\ initialized' = TRUE
    /\ \E draws \in [HealthSlots -> RawDraws] :
            generate_business_health_data(draws)

\* the Global Command Center of an initialised session filters the frame
ShowGlobalCommand == initialized /\ RunFilteredHealth

NextHealth ==
    \/ SessionInit
    \/ ShowGlobalCommand

SpecHealth == InitFresh /\ [][NextHealth]_vars

ScoreFields == {"overall_health", "theft_score", "rewards_score",
                "traffic_score", "employee_score"}

RawOf(raw, f) == IF f = "overall_health" THEN raw.overall_score ELSE raw[f]

\* C3: every generated record has its five scores within [0,100]; a raw
\* value outside the range is replaced by the nearest bound.
C3_ScoresClamped ==
    \A i \in 1..Len(business_health) : \A f \in ScoreFields :
        LET stored == business_health[i][f]
            raw == RawOf(raw_health[i], f)
        IN  /\ 0 <= stored /\ stored <= Pt(100)
            /\ raw < 0 => stored = 0
            /\ raw > Pt(100) => stored = Pt(100)
            /\ (0 <= raw /\ raw <= Pt(100)) => stored = raw

\* C3 witness: a generated frame holds a record whose raw scores are all
\* negative and one whose raw scores are all above 100.
C3_Witness ==
    /\ Len(business_health) >= 2
    /\ \E i \in 1..Len(raw_health) : \A f \in ScoreFields :
            RawOf(raw_health[i], f) < 0
    /\ \E i \in 1..Len(raw_health) : \A f \in ScoreFields :
            RawOf(raw_health[i], f) > Pt(100)

\* the alerts a record's stored scores call for
ExpectedAlerts(rec) ==
    {a \in AlertTexts :
        \/ a = "High theft incidents" /\ rec.theft_score < Pt(50)
        \/ a = "Low rewards program performance" /\ rec.rewards_score < Pt(50)
        \/ a = "Concerning drop in store traffic" /\ rec.traffic_score < Pt(40)
        \/ a = "Excessive employee mobile usage" /\ rec.employee_score < Pt(45)}

\* C4: the alerts of a generated record are exactly those its stored
\* sub-scores call for (thresholds 50, 50, 40, 45), each once; the tests
\* are independent, so each of the 16 subsets is produced by some draw.
C4_AlertsMatchScores ==
    /\ \A i \in 1..Len(business_health) :
        /\ Range(business_health[i].alerts) = ExpectedAlerts(business_health[i])
        /\ Len(business_health[i].alerts) =
                Cardinality(Range(business_health[i].alerts))
    /\ \A A \in SUBSET AlertTexts : \E d \in RawDraws :
            Range(HealthAlerts(Pt(d[1]), Pt(d[2]), Pt(d[3]), Pt(d[4]))) = A

\* C4 witness: one record carries the theft and traffic alerts only, another
\* the rewards and employee alerts only.
C4_Witness ==
    /\ \E i \in 1..Len(business_health) :
            Range(business_health[i].alerts) =
                {"High theft incidents", "Concerning drop in store traffic"}
    /\ \E i \in 1..Len(business_health) :
            Range(business_health[i].alerts) =
                {"Low rewards program performance",
                 "Excessive employee mobile usage"}

\* C5: overall_health before clamping is 0.25*theft + 0.25*rewards +
\* 0.30*traffic + 0.20*employee of the sub-scores before their clamping,
\* the weights sum to 1, and the stored overall_health is that value
\* clamped to [0,100].
C5_OverallWeighted ==
    \A i \in 1..Len(business_health) :
        LET raw == raw_health[i]
        IN  /\ 100 * raw.overall_score =
                  25 * raw.theft_score + 25 * raw.rewards_score +
                  30 * raw.traffic_score + 20 * raw.employee_score
            /\ Weights.theft + Weights.rewards + Weights.traffic +
                  Weights.employee = 100
            /\ business_health[i].overall_health =
                  IF raw.overall_score < 0 THEN 0
                  ELSE IF raw.overall_score > Pt(100) THEN Pt(100)
                  ELSE raw.overall_score

\* C5 witness: a record whose four raw sub-scores differ, the theft score
\* above 100, and whose overall score needs no clamping.
C5_Witness ==
    \E i \in 1..Len(business_health) :
        /\ raw_health[i].theft_score > Pt(100)
        /\ Cardinality({raw_health[i].theft_score, raw_health[i].rewards_score,
                        raw_health[i].traffic_score,
                        raw_health[i].employee_score}) = 4
        /\ business_health[i].overall_health = raw_health[i].overall_score
        /\ business_health[i].theft_score # raw_health[i].theft_score

(***************************************************************************)
(* fix_data.py: the BusinessHealth rows of generate_enhanced_data          *)
(***************************************************************************)

\* The values one BusinessHealth row is built from, in whole points:
\* <<overall_health, theft_score, rewards_score, traffic_score,
\* employee_score>>, five independent draws from uniform(60, 95),
\* uniform(50, 100), uniform(60, 95), uniform(65, 90) and uniform(55, 95).
EnhancedDraws ==
    {<<o, t, r, tr, 80>> : o \in {60, 80, 95}, t \in {50, 80, 100},
                           r \in {60, 80}, tr \in {80}}

EnhancedSlots ==
    {<<s, d>> : s \in 1..Len(HealthStores), d \in 1..NumEnhancedDays}

EnhancedSlotOf(i) ==
    <<((i - 1) \div NumEnhancedDays) + 1, ((i - 1) % NumEnhancedDays) + 1>>

\* BusinessHealth(store_id=..., date=..., overall_health=..., ...,
\* alerts=None)
EnhancedHealthRow(store, date, draw) ==
    [store |-> store, date |-> date,
     overall_health |-> Pt(draw[1]), theft_score |-> Pt(draw[2]),
     rewards_score |-> Pt(draw[3]), traffic_score |-> Pt(draw[4]),
     employee_score |-> Pt(draw[5]), alerts |-> NoValue]

\* dates = [datetime.now() - timedelta(days=i) for i in range(...)]: the
\* k-th date of the loops is k-1 days before the run, so the loops go
\* backwards in time
EnhancedDate(k) == (NumEnhancedDays - k) * HoursPerDay + RunHour

\* variant: the count is stored before the new members are added
AfterGrowth_late(members, new_members) == members

\* members += new_members
AfterGrowth(members, new_members) == members + new_members

\* member_count after the first k dates of the loop
RECURSIVE MemberCount(_, _, _)
MemberCount(start, new, k) ==
    IF k = 0 THEN start
    ELSE AfterGrowth(MemberCount(start, new, k - 1), new[k])

\* RewardsData(store_id=..., date=..., total_members=member_count,
\* new_members=new_members, ...)
EnhancedRewardsRow(store, k, members) ==
    [store |-> store, date |-> EnhancedDate(k),
     total_members |-> MemberCount(members.start, members.new, k),
     new_members |-> members.new[k]]

\* incident_time = incident_date.replace(hour=hour, ...); TheftIncident(
\* timestamp=incident_time, day_of_week=incident_time.strftime("%A"),
\* hour=hour, ...)
EnhancedTheftRow(store, theft) ==
    LET incident_date == EnhancedDate(theft.date)
        incident_time == (incident_date \div HoursPerDay) * HoursPerDay + theft.hour
    IN  [store |-> store, timestamp |-> incident_time,
         day_of_week |-> dt_day_name(incident_time), hour |-> theft.hour,
         value |-> 10, resolved |-> FALSE]

\* CampaignPerformance(participation_rate=round(random.uniform(20, 80), 1),
\* redemption_rate=round(random.uniform(10, 50), 1), ...): two independent
\* draws
EnhancedCampaignRow(store, campaign) ==
    [store |-> store, campaign |-> "Summer Discount",
     participation_rate |-> Pt(campaign.participation),
     redemption_rate |-> Pt(campaign.redemption)]

\* the stores of the list that have no row yet, in the order of the list
MissingStores(names) ==
    SelectSeq(names, LAMBDA n : \A i \in DOMAIN db.stores : db.stores[i].name # n)

\* One run of generate_enhanced_data.  A store of the list without row is
\* added and committed.  Then, for every store, the function builds a
\* theft incident from its draws, and for every date a RewardsData row
\* from the running member count and a BusinessHealth row from five
\* draws, and adds them to its database session.  The TrafficData
\* constructor then raises on an unknown keyword, so the final commit is
\* not reached and only the stores stay in the database.
generate_enhanced_data(draws, members, theft, campaign) ==
    /\ enhanced_health' = [i \in 1..Cardinality(EnhancedSlots) |->
            EnhancedHealthRow(HealthStores[EnhancedSlotOf(i)[1]],
                              EnhancedDate(EnhancedSlotOf(i)[2]),
                              draws[EnhancedSlotOf(i)])]
    /\ enhanced_rewards' = [i \in 1..Cardinality(EnhancedSlots) |->
            EnhancedRewardsRow(HealthStores[EnhancedSlotOf(i)[1]],
                               EnhancedSlotOf(i)[2], members)]
    /\ enhanced_theft' = [s \in 1..Len(HealthStores) |->
            EnhancedTheftRow(HealthStores[s], theft)]
    /\ enhanced_campaigns' = [s \in 1..Len(HealthStores) |->
            EnhancedCampaignRow(HealthStores[s], campaign)]
    /\ db' = [db EXCEPT !.stores =
                [i \in DOMAIN @ \cup
                        {next_id.stores + k - 1 :
                            k \in 1..Len(MissingStores(HealthStores))} |->
                    IF i \in DOMAIN @ THEN @[i]
                    ELSE [name |-> MissingStores(HealthStores)[i - next_id.stores + 1]]]]
    /\ next_id' = [next_id EXCEPT
                      !.stores = @ + Len(MissingStores(HealthStores))]
    /\ view' = "generate_enhanced_data"
    /\ UNCHANGED <<session_data, selection, outputs, initialized, raw_health,
                   store_info, campaign_performance, response, kpis,
                   page_state>>

\* the draws of the member counts and of the incident
EnhancedMembers == [start : {500, 2000}, new : [1..NumEnhancedDays -> {1, 15}]]

EnhancedThefts == [date : 1..NumEnhancedDays, hour : {23}]

EnhancedCampaigns == [participation : {20, 80}, redemption : {10, 50}]

NextEnhanced ==
    \E draws \in [EnhancedSlots -> EnhancedDraws] :
        generate_enhanced_data(draws,
                               [start |-> 500, new |-> [k \in 1..NumEnhancedDays |-> 1]],
                               [date |-> 1, hour |-> 6],
                               [participation |-> 80, redemption |-> 10])

SpecEnhanced == InitFresh /\ [][NextEnhanced]_vars

\* C6: in every BusinessHealth record the system creates, the stored
\* overall_health is 0.25*theft_score + 0.25*rewards_score +
\* 0.30*traffic_score + 0.20*employee_score of the record's stored
\* sub-scores.
C6_StoredOverallWeighted ==
    \A rec \in Range(business_health) \cup Range(enhanced_health) :
        100 * rec.overall_health =
            25 * rec.theft_score + 25 * rec.rewards_score +
            30 * rec.traffic_score + 20 * rec.employee_score

(***************************************************************************)
(* Time-bucket aggregation: the heatmap pivots                             *)
(***************************************************************************)

\* the cells of a frame: a missing cell, and a cell holding the number v
NaN == <<>>

Num(v) == <<v>>

Hours == 0..(HoursPerDay - 1)

\* list(range(24))
HourColumns == [i \in 1..HoursPerDay |-> i - 1]

\* the order in which pandas sorts the day names of a group key or index
sorted_day_names == <<"Friday", "Monday", "Saturday", "Sunday", "Thursday",
                      "Tuesday", "Wednesday">>

\* the (day, hour) group keys in sorted order
SortedKeys == [i \in 1..(7 * HoursPerDay) |->
                <<sorted_day_names[((i - 1) \div HoursPerDay) + 1],
                  (i - 1) % HoursPerDay>>]

\* the hours of S in ascending order
SortedHours(S) == SelectSeq(HourColumns, LAMBDA h : h \in S)

RECURSIVE SumSeq(_)
SumSeq(s) == IF s = <<>> THEN 0 ELSE Head(s) + SumSeq(Tail(s))

RECURSIVE Factorial(_)
Factorial(n) == IF n <= 1 THEN 1 ELSE n * Factorial(n - 1)

\* Means are fixed-point numbers with MeanScale units per 1; a group has at
\* most MaxRows rows, so every mean is exact.
MeanScale == Factorial(MaxRows)

Mean(s) == (SumSeq(s) * MeanScale) \div Len(s)

GroupKeys(df) == {<<df[i].day_of_week, df[i].hour>> : i \in 1..Len(df)}

GroupRows(df, key) ==
    SelectSeq(df, LAMBDA r : r.day_of_week = key[1] /\ r.hour = key[2])

ColumnOf(df, field) == [i \in 1..Len(df) |-> df[i][field]]

\* df.groupby(['day_of_week', 'hour']).size().reset_index(name='incidents')
groupby_size(df) ==
    LET present == SelectSeq(SortedKeys, LAMBDA k : k \in GroupKeys(df))
    IN  [i \in 1..Len(present) |->
            [day_of_week |-> present[i][1], hour |-> present[i][2],
             incidents |-> Len(GroupRows(df, present[i]))]]

Aggregate(aggfunc, s) ==
    CASE aggfunc = "sum" -> SumSeq(s)
      [] aggfunc = "mean" -> Mean(s)
      [] aggfunc = "first" -> s[1]

\* df.pivot_table(index='day_of_week', columns='hour', values=..., aggfunc=...):
\* one row per day and one column per hour that occur in df, both sorted;
\* a cell whose (day, hour) group is empty is missing
pivot_table(df, values, aggfunc) ==
    LET keys == GroupKeys(df)
        index == SelectSeq(sorted_day_names, LAMBDA d : \E k \in keys : k[1] = d)
        columns == SortedHours({k[2] : k \in keys})
    IN  [index |-> index, columns |-> columns,
         cell |-> [k \in Range(index) \X Range(columns) |->
                    IF k \in keys
                    THEN Num(Aggregate(aggfunc, ColumnOf(GroupRows(df, k), values)))
                    ELSE NaN]]

\* df.pivot(index='day_of_week', columns='hour', values=...) of a frame with
\* one row per (day, hour)
pivot(df, values) == pivot_table(df, values, "first")

\* P.reindex(new_index): rows in the given order, a row P lacks is missing
reindex(P, new_index) ==
    [index |-> new_index, columns |-> P.columns,
     cell |-> [k \in Range(new_index) \X Range(P.columns) |->
                IF k[1] \in Range(P.index) THEN P.cell[k] ELSE NaN]]

\* P.fillna(v)
fillna(P, v) ==
    [P EXCEPT !.cell = [k \in DOMAIN P.cell |->
                            IF P.cell[k] = NaN THEN Num(v) ELSE P.cell[k]]]

\* for hour in range(24): if hour not in P.columns: P[hour] = 0
\* (each new column is appended after the existing ones)
ensure_hours(P) ==
    LET missing == Hours \ Range(P.columns)
    IN  [index |-> P.index, columns |-> P.columns \o SortedHours(missing),
         cell |-> [k \in Range(P.index) \X (Range(P.columns) \cup missing) |->
                    IF k[2] \in missing THEN Num(0) ELSE P.cell[k]]]

\* P.sort_index(axis=1)
sort_index_columns(P) == [P EXCEPT !.columns = SortedHours(Range(P.columns))]

\* the frame with hour and day_of_week recomputed from the timestamp
WithHourAndDay(df) ==
    [i \in 1..Len(df) |->
        [df[i] EXCEPT !.hour = dt_hour(df[i].timestamp),
                      !.day_of_week = dt_day_name(df[i].timestamp)]]

\* variant: the pivot is not passed through fillna(0)
theft_pivot_data_nofill(df) ==
    LET heatmap_data == groupby_size(WithHourAndDay(df))
        pivoted == reindex(pivot(heatmap_data, "incidents"), day_order)
    IN  sort_index_columns(ensure_hours(pivoted))

\* theft_analytics.show_heatmap_analysis: pivot_data
theft_pivot_data(df) ==
    LET heatmap_data == groupby_size(WithHourAndDay(df))
        pivoted == fillna(reindex(pivot(heatmap_data, "incidents"), day_order), 0)
    IN  sort_index_columns(ensure_hours(pivoted))

\* traffic_analytics.show_heatmap_analysis: pivot_data
traffic_pivot_data(df) ==
    sort_index_columns(ensure_hours(
        reindex(pivot_table(df, "visitor_count", "mean"), day_order)))

\* traffic_analytics.show_heatmap_analysis: store_pivot
traffic_store_pivot(df, store_option) ==
    LET store_patterns == SelectSeq(df, LAMBDA r : r.store = store_option)
    IN  reindex(pivot_table(store_patterns, "visitor_count", "mean"), day_order)

\* employee_analytics.show_heatmap_analysis: pivot_data
employee_pivot_data(df) ==
    sort_index_columns(ensure_hours(
        reindex(pivot_table(df, "mobile_usage_incidents", "mean"), day_order)))

\* employee_analytics.show_heatmap_analysis: store_pivot
employee_store_pivot(df, store_option) ==
    LET store_patterns == SelectSeq(df, LAMBDA r : r.store = store_option)
    IN  reindex(pivot_table(store_patterns, "mobile_usage_incidents", "mean"),
                day_order)

\* show_combined_analysis: theft_pivot
combined_theft_pivot(df) ==
    LET theft_heatmap == groupby_size(WithHourAndDay(df))
        pivoted == fillna(reindex(pivot_table(theft_heatmap, "incidents", "sum"),
                                  day_order), 0)
    IN  sort_index_columns(ensure_hours(pivoted))

\* show_combined_analysis: traffic_pivot
combined_traffic_pivot(df) ==
    LET pivoted == fillna(reindex(pivot_table(df, "visitor_count", "mean"),
                                  day_order), 0)
    IN  sort_index_columns(ensure_hours(pivoted))

\* get_filtered_traffic_patterns and get_filtered_mobile_patterns: the
\* store filter only
get_filtered_traffic_patterns(data, stores) ==
    IF stores # {} THEN FilterStore(data, stores) ELSE data

get_filtered_mobile_patterns(data, stores) ==
    IF stores # {} THEN FilterStore(data, stores) ELSE data

(***************************************************************************)
(* Specification of the heatmaps: the frames are drawn, the sidebar sets   *)
(* the selection, and the pages build their pivots.                        *)
(***************************************************************************)

\* a drawn row: store, moment and the count of a pattern row
SampleCounts == {3}

HeatRows == [store : Stores, day : Days, hour : SampleHours, count : SampleCounts]

TrafficPatternOfRow(w) ==
    [store |-> w.store, day_of_week |-> day_order[(w.day % 7) + 1],
     hour |-> w.hour, visitor_count |-> w.count]

MobilePatternOfRow(w) ==
    [store |-> w.store, day_of_week |-> day_order[(w.day % 7) + 1],
     hour |-> w.hour, mobile_usage_incidents |-> w.count]

InitHeatmap ==
    /\ \E rows \in SeqsUpTo(HeatRows, MaxRows) :
          /\ theft_data = [i \in 1..Len(rows) |-> TheftOfRow(rows[i])]
          /\ daily_traffic = [i \in 1..Len(rows) |-> DatedOfRow(rows[i])]
          /\ shift_usage_data = [i \in 1..Len(rows) |-> DatedOfRow(rows[i])]
          /\ traffic_patterns =
                [i \in 1..Len(rows) |-> TrafficPatternOfRow(rows[i])]
          /\ mobile_usage_patterns =
                [i \in 1..Len(rows) |-> MobilePatternOfRow(rows[i])]
    /\ rewards_data = <<>>
    /\ business_health = <<>>
    /\ initialized = TRUE
    /\ raw_health = <<>>
    /\ enhanced_health = <<>>
    /\ InitBackend
    /\ InitSelection
    /\ InitOutputs

Unchanged_state == <<session_data, selection, generator_state, backend>>

\* show_theft_analytics: filter, stop on an empty frame, else the heatmap
TheftHeatmap ==
    LET td == get_filtered_theft_data(theft_data, selected_stores, date_range)
    IN  /\ Ran("theft_show_heatmap_analysis", td,
               IF td = <<>> THEN NoValue ELSE theft_pivot_data(td),
               NoValue, NoValue, NoValue, NoValue)
        /\ UNCHANGED Unchanged_state

\* show_traffic_analytics: filter, stop on an empty frame, else the heatmap;
\* the store pivot is built when more than one store is selected, for the
\* store chosen in the select box
TrafficHeatmap(store_option) ==
    LET tp == get_filtered_traffic_patterns(traffic_patterns, selected_stores)
        dt == get_filtered_daily_traffic(daily_traffic, selected_stores, date_range)
    IN  /\ tp # <<>> /\ dt # <<>>
        /\ store_option \in selected_stores
        /\ Ran("traffic_show_heatmap_analysis", tp, traffic_pivot_data(tp),
               IF Cardinality(selected_stores) > 1
               THEN traffic_store_pivot(tp, store_option) ELSE NoValue,
               NoValue, NoValue, NoValue)
        /\ UNCHANGED Unchanged_state

\* show_employee_analytics: the same for the mobile usage patterns
EmployeeHeatmap(store_option) ==
    LET mp == get_filtered_mobile_patterns(mobile_usage_patterns, selected_stores)
        sd == get_filtered_shift_data(shift_usage_data, selected_stores, date_range)
    IN  /\ mp # <<>> /\ sd # <<>>
        /\ store_option \in selected_stores
        /\ Ran("employee_show_heatmap_analysis", mp, employee_pivot_data(mp),
               IF Cardinality(selected_stores) > 1
               THEN employee_store_pivot(mp, store_option) ELSE NoValue,
               NoValue, NoValue, NoValue)
        /\ UNCHANGED Unchanged_state

\* show_combined_analysis, called at the end of show_traffic_analytics: it
\* filters both frames by store only and stops when either is empty
show_combined_analysis ==
    LET tp0 == get_filtered_traffic_patterns(traffic_patterns, selected_stores)
        dt0 == get_filtered_daily_traffic(daily_traffic, selected_stores, date_range)
        td == IF selected_stores # {}
              THEN FilterStore(theft_data, selected_stores) ELSE theft_data
        tp == IF selected_stores # {}
              THEN FilterStore(traffic_patterns, selected_stores)
              ELSE traffic_patterns
    IN  /\ tp0 # <<>> /\ dt0 # <<>>
        /\ Ran("show_combined_analysis", [theft |-> td, traffic |-> tp],
               NoValue, NoValue,
               IF td = <<>> \/ tp = <<>> THEN NoValue ELSE combined_theft_pivot(td),
               IF td = <<>> \/ tp = <<>> THEN NoValue ELSE combined_traffic_pivot(tp),
               NoValue)
        /\ UNCHANGED Unchanged_state

NextHeatmap ==
    \/ \E stores \in SUBSET Stores : SelectStores(stores)
    \/ TheftHeatmap
    \/ \E s \in Stores : TrafficHeatmap(s)
    \/ \E s \in Stores : EmployeeHeatmap(s)
    \/ show_combined_analysis

SpecHeatmap == InitHeatmap /\ [][NextHeatmap]_vars

\* P has the seven days Monday..Sunday as rows and the hours 0..23 as
\* columns, no cell is missing, and the cells of the (day, hour) pairs
\* outside keys hold 0
IsCompleteGrid(P, keys) ==
    /\ P.index = day_order
    /\ P.columns = HourColumns
    /\ DOMAIN P.cell = Range(day_order) \X Hours
    /\ \A k \in DOMAIN P.cell : P.cell[k] # NaN
    /\ \A k \in (Range(day_order) \X Hours) \ keys : P.cell[k] = Num(0)

\* the (day, hour) pairs of the timestamps of a theft frame
TimestampKeys(df) ==
    {<<dt_day_name(df[i].timestamp), dt_hour(df[i].timestamp)>> : i \in 1..Len(df)}

\* C7: for a non-empty theft frame the pivot of the theft heatmap, and the
\* theft and traffic pivots of show_combined_analysis, have the rows
\* Monday..Sunday and the columns 0..23 in that order, and every cell
\* without an input record holds 0, not null.
C7_TheftPivotComplete ==
    /\ (view = "theft_show_heatmap_analysis" /\ filtered # <<>>) =>
            IsCompleteGrid(pivot_data, TimestampKeys(filtered))
    /\ (view = "show_combined_analysis" /\ filtered.theft # <<>>
            /\ filtered.traffic # <<>>) =>
            /\ IsCompleteGrid(theft_pivot, TimestampKeys(filtered.theft))
            /\ IsCompleteGrid(traffic_pivot, GroupKeys(filtered.traffic))

\* C7 witness: the theft heatmap of two incidents on different days and
\* hours: their cells hold 1, the two crossed cells hold 0.
C7_Witness ==
    /\ view = "theft_show_heatmap_analysis"
    /\ Len(filtered) = 2
    /\ TimestampKeys(filtered) = {<<"Monday", 12>>, <<"Friday", 0>>}
    /\ pivot_data.cell[<<"Monday", 12>>] = Num(1)
    /\ pivot_data.cell[<<"Friday", 0>>] = Num(1)
    /\ pivot_data.cell[<<"Monday", 0>>] = Num(0)
    /\ pivot_data.cell[<<"Friday", 12>>] = Num(0)

\* C8: for a non-empty pattern frame the pivots of the traffic and employee
\* heatmaps, the all-stores pivot and the per-store pivot, have the rows
\* Monday..Sunday and the columns 0..23, and every (day, hour) pair absent
\* from the input holds 0, not null.
C8_PatternPivotsComplete ==
    (view \in {"traffic_show_heatmap_analysis", "employee_show_heatmap_analysis"}) =>
        /\ IsCompleteGrid(pivot_data, GroupKeys(filtered))
        /\ Cardinality(selected_stores) > 1 =>
              \E s \in selected_stores :
                 IsCompleteGrid(store_pivot,
                     GroupKeys(SelectSeq(filtered, LAMBDA r : r.store = s)))

(***************************************************************************)
(* Employee compliance scores: show_recommendations                        *)
(***************************************************************************)

\* Exact fractions n/d in lowest terms stand for the floats of the scores;
\* d = 0 marks the result of a division by zero (NaN).
RECURSIVE GCD(_, _)
GCD(a, b) == IF b = 0 THEN a ELSE GCD(b, a % b)

RatNaN == [n |-> 0, d |-> 0]

IsNaN(a) == a.d = 0

Rat(n, d) ==
    IF d = 0 THEN RatNaN
    ELSE LET g == GCD(IF n < 0 THEN -n ELSE n, d) IN [n |-> n \div g, d |-> d \div g]

RatAdd(a, b) == Rat(a.n * b.d + b.n * a.d, a.d * b.d)

RatSub(a, b) == Rat(a.n * b.d - b.n * a.d, a.d * b.d)

RatMul(a, b) == Rat(a.n * b.n, a.d * b.d)

RatDiv(a, b) == Rat(a.n * b.d, a.d * b.n)

\* comparisons; a comparison with NaN is false
RatLess(a, b) == ~IsNaN(a) /\ ~IsNaN(b) /\ a.n * b.d < b.n * a.d

RatLeq(a, b) == ~IsNaN(a) /\ ~IsNaN(b) /\ a.n * b.d <= b.n * a.d

\* Series.mean()
RatMean(s) == Rat(SumSeq(s), Len(s))

\* the values of a series
Values(f) == {f[x] : x \in DOMAIN f}

\* Series.max() of a non-empty series of fractions
RatMax(S) == CHOOSE m \in S : \A x \in S : RatLeq(x, m)

\* the order in which groupby sorts the store names
sorted_store_names == <<"Downtown Mart", "Riverside Convenience">>

\* shift_data.groupby('store').agg({... : 'mean', ... : 'mean'})
groupby_store_mean(df) ==
    LET present == SelectSeq(sorted_store_names,
                             LAMBDA s : \E i \in 1..Len(df) : df[i].store = s)
        rows(s) == SelectSeq(df, LAMBDA r : r.store = s)
    IN  [index |-> present,
         mobile_usage_incidents |->
            [s \in Range(present) |->
                RatMean(ColumnOf(rows(s), "mobile_usage_incidents"))],
         avg_duration_minutes |->
            [s \in Range(present) |->
                RatMean(ColumnOf(rows(s), "avg_duration_minutes"))]]

\* variant: the scores are computed when either maximum is positive
HasPositiveMaxima_either(max_incidents, max_duration) ==
    RatLess(Rat(0, 1), max_incidents) \/ RatLess(Rat(0, 1), max_duration)

\* if max_incidents > 0 and max_duration > 0
HasPositiveMaxima(max_incidents, max_duration) ==
    RatLess(Rat(0, 1), max_incidents) /\ RatLess(Rat(0, 1), max_duration)

\* incident_score, duration_score and compliance_score of one store
compliance_score(incidents, duration, max_incidents, max_duration) ==
    LET incident_score == RatSub(Rat(1, 1), RatDiv(incidents, max_incidents))
        duration_score == RatSub(Rat(1, 1), RatDiv(duration, max_duration))
    IN  RatMul(RatAdd(RatMul(incident_score, Rat(6, 10)),
                      RatMul(duration_score, Rat(4, 10))),
               Rat(100, 1))

Orderings(S) == {o \in [1..Cardinality(S) -> S] : Range(o) = S}

\* variant: sort_values('compliance_score', ascending=True)
sort_values_descending_asc(index, score) ==
    {o \in Orderings(Range(index)) :
        \A i, j \in 1..Len(o) :
            i < j => \/ IsNaN(score[o[j]])
                     \/ RatLeq(score[o[i]], score[o[j]])}

\* sort_values('compliance_score', ascending=False): the orders the sort can
\* produce; it is not stable, so tied stores come in either order, and NaN
\* comes last
sort_values_descending(index, score) ==
    {o \in Orderings(Range(index)) :
        \A i, j \in 1..Len(o) :
            i < j => \/ IsNaN(score[o[j]])
                     \/ RatLeq(score[o[j]], score[o[i]])}

\* the store_scores frames show_recommendations can end with, and the
\* stores it lists under "Compliance Scores"
compliance_scores(shift_data) ==
    LET means == groupby_store_mean(shift_data)
        stores == Range(means.index)
        max_incidents == RatMax(Values(means.mobile_usage_incidents))
        max_duration == RatMax(Values(means.avg_duration_minutes))
        score == [s \in stores |->
                    compliance_score(means.mobile_usage_incidents[s],
                                     means.avg_duration_minutes[s],
                                     max_incidents, max_duration)]
    IN  IF HasPositiveMaxima(max_incidents, max_duration)
        THEN {[index |-> o,
               mobile_usage_incidents |-> means.mobile_usage_incidents,
               avg_duration_minutes |-> means.avg_duration_minutes,
               scored |-> TRUE, compliance_score |-> score, listed |-> o]
                : o \in sort_values_descending(means.index, score)}
        ELSE {[index |-> means.index,
               mobile_usage_incidents |-> means.mobile_usage_incidents,
               avg_duration_minutes |-> means.avg_duration_minutes,
               scored |-> FALSE, compliance_score |-> <<>>, listed |-> <<>>]}

(***************************************************************************)
(* Specification of the compliance scores: the shift frame is drawn, the   *)
(* sidebar sets the stores, the employee page shows its recommendations.   *)
(***************************************************************************)

SampleIncidents == {0, 1, 2}

SampleDurations == {0, 2, 5}

ShiftRows == [store : Stores, incidents : SampleIncidents,
              duration : SampleDurations]

ShiftOfRow(w) ==
    [store |-> w.store, date |-> FirstInstant,
     mobile_usage_incidents |-> w.incidents,
     avg_duration_minutes |-> w.duration]

InitCompliance ==
    /\ \E rows \in SeqsUpTo(ShiftRows, MaxRows) :
          shift_usage_data = [i \in 1..Len(rows) |-> ShiftOfRow(rows[i])]
    /\ mobile_usage_patterns =
          [i \in 1..Len(sorted_store_names) |->
              [store |-> sorted_store_names[i], day_of_week |-> day_order[1],
               hour |-> 0, mobile_usage_incidents |-> 0]]
    /\ theft_data = <<>>
    /\ rewards_data = <<>>
    /\ daily_traffic = <<>>
    /\ business_health = <<>>
    /\ traffic_patterns = <<>>
    /\ initialized = TRUE
    /\ raw_health = <<>>
    /\ enhanced_health = <<>>
    /\ InitBackend
    /\ InitSelection
    /\ InitOutputs

\* show_recommendations, called at the end of show_employee_analytics
show_recommendations ==
    LET mp == get_filtered_mobile_patterns(mobile_usage_patterns, selected_stores)
        sd == get_filtered_shift_data(shift_usage_data, selected_stores, date_range)
    IN  /\ mp # <<>> /\ sd # <<>>
        /\ \E scores \in compliance_scores(sd) :
              Ran("show_recommendations", sd, NoValue, NoValue, NoValue,
                  NoValue, scores)
        /\ UNCHANGED Unchanged_state

NextCompliance ==
    \/ \E stores \in SUBSET Stores : SelectStores(stores)
    \/ show_recommendations

SpecCompliance == InitCompliance /\ [][NextCompliance]_vars

\* the largest per-store mean of a column of the compared frame
MaxStoreMean(df, field) == RatMax(Values(groupby_store_mean(df)[field]))

\* C9: when the largest per-store mean incident count or the largest
\* per-store mean duration is 0, show_recommendations produces no
\* compliance score for any store and lists none.
C9_NoScoreOnZeroMaximum ==
    (/\ view = "show_recommendations"
     /\ \/ MaxStoreMean(filtered, "mobile_usage_incidents") = Rat(0, 1)
        \/ MaxStoreMean(filtered, "avg_duration_minutes") = Rat(0, 1)) =>
        /\ ~store_scores.scored
        /\ store_scores.compliance_score = <<>>
        /\ store_scores.listed = <<>>

\* C9 witness: two stores compared, every shift with zero incidents and
\* zero duration, and no score produced.
C9_Witness ==
    /\ view = "show_recommendations"
    /\ Len(store_scores.index) = 2
    /\ \A i \in 1..Len(filtered) :
          /\ filtered[i].mobile_usage_incidents = 0
          /\ filtered[i].avg_duration_minutes = 0
    /\ ~store_scores.scored

PositionIn(seq, x) == CHOOSE i \in 1..Len(seq) : seq[i] = x

\* C10: when both maxima are positive, each store's score is
\* 100*(0.6*(1 - incidents/max_incidents) + 0.4*(1 - duration/max_duration)),
\* it lies in [0,100], and a store strictly lower than another in both
\* incidents and duration has the strictly higher score and is listed first.
C10_ComplianceFormulaAndOrder ==
    (/\ view = "show_recommendations"
     /\ RatLess(Rat(0, 1), MaxStoreMean(filtered, "mobile_usage_incidents"))
     /\ RatLess(Rat(0, 1), MaxStoreMean(filtered, "avg_duration_minutes"))) =>
        LET inc == store_scores.mobile_usage_incidents
            dur == store_scores.avg_duration_minutes
            maxi == MaxStoreMean(filtered, "mobile_usage_incidents")
            maxd == MaxStoreMean(filtered, "avg_duration_minutes")
            score == store_scores.compliance_score
            stores == DOMAIN inc
        IN  /\ store_scores.scored
            /\ DOMAIN score = stores
            /\ Range(store_scores.listed) = stores
            /\ \A s \in stores :
                  /\ score[s] = RatSub(Rat(100, 1),
                                  RatAdd(RatMul(Rat(60, 1), RatDiv(inc[s], maxi)),
                                         RatMul(Rat(40, 1), RatDiv(dur[s], maxd))))
                  /\ RatLeq(Rat(0, 1), score[s])
                  /\ RatLeq(score[s], Rat(100, 1))
            /\ \A a, b \in stores :
                  (RatLess(inc[a], inc[b]) /\ RatLess(dur[a], dur[b])) =>
                      /\ RatLess(score[b], score[a])
                      /\ PositionIn(store_scores.listed, a)
                            < PositionIn(store_scores.listed, b)

\* C10 witness: the second store by name is strictly lower than the first in
\* both incidents and duration, scores strictly between the first store's 0
\* and 100, and is listed first.
C10_Witness ==
    /\ view = "show_recommendations"
    /\ store_scores.scored
    /\ LET a == sorted_store_names[2]
           b == sorted_store_names[1]
       IN  /\ {a, b} \subseteq DOMAIN store_scores.compliance_score
           /\ RatLess(store_scores.mobile_usage_incidents[a],
                      store_scores.mobile_usage_incidents[b])
           /\ RatLess(store_scores.avg_duration_minutes[a],
                      store_scores.avg_duration_minutes[b])
           /\ RatLess(Rat(0, 1), store_scores.mobile_usage_incidents[a])
           /\ store_scores.compliance_score[b] = Rat(0, 1)
           /\ RatLess(Rat(0, 1), store_scores.compliance_score[a])
           /\ RatLess(store_scores.compliance_score[a], Rat(100, 1))
           /\ store_scores.listed = <<a, b>>

(***************************************************************************)
(* Theft KPIs: show_theft_kpis of the theft page and the dashboard         *)
(* summary of the API server (run_api.py serves basic_api).                *)
(***************************************************************************)

MaxDbStores == 2        \* store rows the database gets

\* the rows of table t in id order (the order the queries return them in)
RowsOf(t) == [i \in 1..Cardinality(DOMAIN t) |-> t[NthSmallest(DOMAIN t, i)]]

\* len(theft_data), theft_data['value'].sum(),
\* theft_data[theft_data['resolved']].shape[0] and the rate
show_theft_kpis_metrics(td) ==
    LET total_incidents == Len(td)
        total_value == SumSeq(ColumnOf(td, "value"))
        resolved_count == Len(SelectSeq(td, LAMBDA r : r.resolved))
        resolution_rate ==
            IF total_incidents > 0
            THEN RatMul(RatDiv(Rat(resolved_count, 1), Rat(total_incidents, 1)),
                        Rat(100, 1))
            ELSE Rat(0, 1)
    IN  [total_incidents |-> total_incidents, total_value |-> total_value,
         resolved_incidents |-> resolved_count,
         resolution_rate |-> resolution_rate]

\* variant: the rate is computed without the test for an empty list
theft_summary_unguarded(theft_incidents) ==
    LET total_theft_incidents == Len(theft_incidents)
        resolved_incidents == Len(SelectSeq(theft_incidents, LAMBDA r : r.resolved))
    IN  [total_incidents |-> total_theft_incidents,
         resolved_incidents |-> resolved_incidents,
         resolution_rate |->
            RatMul(RatDiv(Rat(resolved_incidents, 1), Rat(total_theft_incidents, 1)),
                   Rat(100, 1))]

\* get_dashboard_summary: "theft_analytics" of the summary
theft_summary(theft_incidents) ==
    LET total_theft_incidents == Len(theft_incidents)
        resolved_incidents == Len(SelectSeq(theft_incidents, LAMBDA r : r.resolved))
    IN  [total_incidents |-> total_theft_incidents,
         resolved_incidents |-> resolved_incidents,
         resolution_rate |->
            IF total_theft_incidents > 0
            THEN RatMul(RatDiv(Rat(resolved_incidents, 1),
                               Rat(total_theft_incidents, 1)), Rat(100, 1))
            ELSE Rat(0, 1)]

\* theft_query of get_dashboard_summary: a store_id of 0 (or none) does not
\* filter
SummaryIncidents(store_id) ==
    SelectSeq(RowsOf(db.theft_incidents),
              LAMBDA r : store_id = 0 \/ r.store_id = store_id)

SampleValues == {10, 20, 30}

KpiRows == [store : Stores, value : SampleValues, resolved : BOOLEAN]

\* the id save_data_to_db gives the store in a new database
StoreIdOf(name) == CHOOSE i \in 1..Len(sorted_store_names) : sorted_store_names[i] = name

TheftRecordOfKpiRow(w) ==
    [store |-> w.store, timestamp |-> FirstInstant,
     day_of_week |-> dt_day_name(FirstInstant), hour |-> dt_hour(FirstInstant),
     value |-> w.value, resolved |-> w.resolved]

TheftIncidentOfKpiRow(w) ==
    [store_id |-> StoreIdOf(w.store), timestamp |-> FirstInstant,
     day_of_week |-> dt_day_name(FirstInstant), hour |-> dt_hour(FirstInstant),
     value |-> w.value, resolved |-> w.resolved]

\* a session whose theft frame has been saved to a new database
InitKpi ==
    /\ \E rows \in SeqsUpTo(KpiRows, MaxRows) :
          /\ theft_data = [i \in 1..Len(rows) |-> TheftRecordOfKpiRow(rows[i])]
          /\ db = [EmptyDb EXCEPT
                     !.stores = [i \in 1..Len(sorted_store_names) |->
                                    [name |-> sorted_store_names[i]]],
                     !.theft_incidents =
                        [i \in 1..Len(rows) |-> TheftIncidentOfKpiRow(rows[i])]]
          /\ next_id = [FirstIds EXCEPT
                          !.stores = Len(sorted_store_names) + 1,
                          !.theft_incidents = Len(rows) + 1]
    /\ store_info = [i \in 1..Len(sorted_store_names) |->
                        [store_name |-> sorted_store_names[i]]]
    /\ rewards_data = <<>>
    /\ daily_traffic = <<>>
    /\ shift_usage_data = <<>>
    /\ business_health = <<>>
    /\ traffic_patterns = <<>>
    /\ mobile_usage_patterns = <<>>
    /\ campaign_performance = <<>>
    /\ initialized = TRUE
    /\ raw_health = <<>>
    /\ enhanced_health = <<>>
    /\ enhanced_rewards = <<>>
    /\ enhanced_theft = <<>>
    /\ enhanced_campaigns = <<>>
    /\ InitPage
    /\ response = NoValue
    /\ kpis = NoValue
    /\ InitSelection
    /\ InitOutputs

\* what an API call leaves alone
frontend == <<session_data, selection, outputs, generator_state, store_info,
              campaign_performance, kpis, enhanced_rewards, enhanced_theft,
              enhanced_campaigns, page_state>>

\* show_theft_analytics: filter, stop on an empty frame, else show_theft_kpis
show_theft_kpis ==
    LET td == get_filtered_theft_data(theft_data, selected_stores, date_range)
    IN  /\ td # <<>>
        /\ Ran("show_theft_kpis", td, NoValue, NoValue, NoValue, NoValue, NoValue)
        /\ kpis' = show_theft_kpis_metrics(td)
        /\ UNCHANGED <<session_data, selection, generator_state, store_info,
                       campaign_performance, db, next_id, response,
                       enhanced_rewards, enhanced_theft, enhanced_campaigns,
                       page_state>>

\* GET /api/dashboard/summary
get_dashboard_summary(store_id) ==
    /\ view' = "get_dashboard_summary"
    /\ response' = [status |-> 200, store_id |-> store_id,
                    theft_analytics |-> theft_summary(SummaryIncidents(store_id))]
    /\ UNCHANGED <<db, next_id, frontend>>

NextKpi ==
    \/ \E stores \in SUBSET Stores : SelectStores(stores)
    \/ show_theft_kpis
    \/ \E store_id \in 0..(MaxDbStores + 1) : get_dashboard_summary(store_id)

SpecKpi == InitKpi /\ [][NextKpi]_vars

\* the four metrics agree with the records rs
KpisMatch(k, rs, with_value) ==
    LET resolved == {i \in 1..Len(rs) : rs[i].resolved}
    IN  /\ k.total_incidents = Len(rs)
        /\ with_value => k.total_value = SumSeq([i \in 1..Len(rs) |-> rs[i].value])
        /\ k.resolved_incidents = Cardinality(resolved)
        /\ k.resolution_rate =
              (IF Len(rs) = 0 THEN Rat(0, 1)
               ELSE Rat(100 * Cardinality(resolved), Len(rs)))
        /\ k.resolved_incidents <= k.total_incidents
        /\ RatLeq(Rat(0, 1), k.resolution_rate)
        /\ RatLeq(k.resolution_rate, Rat(100, 1))

\* C11: the theft KPIs are the record count, the sum of the values, the
\* count of resolved records and resolved/total*100, which is 0 without a
\* division when there is no record; so resolved <= total and the rate is
\* in [0,100].  The API summary reports the same without the value sum.
C11_TheftKpis ==
    /\ view = "show_theft_kpis" => KpisMatch(kpis, filtered, TRUE)
    /\ view = "get_dashboard_summary" =>
          KpisMatch(response.theft_analytics,
                    SelectSeq(RowsOf(db.theft_incidents),
                              LAMBDA r : response.store_id \in {0, r.store_id}),
                    FALSE)

\* C11 witness: the theft page over two records, one of them resolved:
\* rate 50, and the values add up.
C11_Witness ==
    /\ view = "show_theft_kpis"
    /\ kpis.total_incidents = 2
    /\ kpis.resolved_incidents = 1
    /\ kpis.resolution_rate = Rat(50, 1)
    /\ kpis.total_value = filtered[1].value + filtered[2].value
    /\ filtered[1].value # filtered[2].value

(***************************************************************************)
(* The database tables and the API server.  run_api.py serves basic_api;   *)
(* the database is PostgreSQL, which enforces the foreign keys.            *)
(***************************************************************************)

MaxDbIncidents == 1     \* theft_incidents rows the database gets

\* a store_id column without a value
NULL == -1

\* the tables whose rows carry a store_id
DependentTables == Tables \ {"stores"}

\* the tables Store has a relationship() to: deleting a Store sets the
\* store_id of its rows in these tables to NULL before the DELETE
RelationshipTables == {"theft_incidents", "rewards_data", "traffic_data",
                       "employee_data", "business_health"}

\* INSERT: the row gets the next serial id of its table
Insert(t, id, row) == [i \in DOMAIN t \cup {id} |-> IF i = id THEN row ELSE t[i]]

\* DELETE of the row with the id
Delete(t, id) == [i \in DOMAIN t \ {id} |-> t[i]]

\* UPDATE ... SET store_id = NULL WHERE store_id = id
Nullify(t, id) ==
    [i \in DOMAIN t |-> IF t[i].store_id = id THEN [t[i] EXCEPT !.store_id = NULL]
                        ELSE t[i]]

\* the rows of the database that reference the store
References(d, t, id) == {i \in DOMAIN d[t] : d[t][i].store_id = id}

\* variant: the error is answered with status 200
HTTPException_ok(op, id, status_code, detail) ==
    [op |-> op, id |-> id, status |-> 200, detail |-> detail]

\* raise HTTPException(status_code=..., detail=...)
HTTPException(op, id, status_code, detail) ==
    [op |-> op, id |-> id, status |-> status_code, detail |-> detail]

\* the answer of a handler that returned
Returned(op, id, status_code, body) ==
    [op |-> op, id |-> id, status |-> status_code, detail |-> body]

\* an exception of the database driver leaves the handler: status 500
ServerError(op, id) == [op |-> op, id |-> id, status |-> 500, detail |-> "IntegrityError"]

\* an API handler answered and left the session state alone
Answered(op, answer) ==
    /\ view' = op
    /\ response' = answer
    /\ UNCHANGED frontend

\* GET /api/stores
get_stores ==
    /\ Answered("get_stores", Returned("get_stores", 0, 200, RowsOf(db.stores)))
    /\ UNCHANGED <<db, next_id>>

\* POST /api/stores
create_store(name) ==
    /\ next_id.stores <= MaxDbStores
    /\ db' = [db EXCEPT !.stores = Insert(@, next_id.stores, [name |-> name])]
    /\ next_id' = [next_id EXCEPT !.stores = @ + 1]
    /\ Answered("create_store",
                Returned("create_store", next_id.stores, 201, [name |-> name]))

\* GET /api/stores/{store_id}
get_store(store_id) ==
    /\ Answered("get_store",
          IF store_id \notin DOMAIN db.stores
          THEN HTTPException("get_store", store_id, 404, "Store not found")
          ELSE Returned("get_store", store_id, 200, db.stores[store_id]))
    /\ UNCHANGED <<db, next_id>>

\* PUT /api/stores/{store_id}
update_store(store_id, name) ==
    /\ IF store_id \notin DOMAIN db.stores
       THEN /\ Answered("update_store",
                  HTTPException("update_store", store_id, 404, "Store not found"))
            /\ UNCHANGED db
       ELSE /\ db' = [db EXCEPT !.stores[store_id].name = name]
            /\ Answered("update_store",
                  Returned("update_store", store_id, 200, [name |-> name]))
    /\ UNCHANGED next_id

\* db.delete(db_store); db.commit(): the rows of the relationship tables
\* lose their store_id, then the store row is deleted
delete_store_rows(d, store_id) ==
    [t \in Tables |->
        IF t = "stores" THEN Delete(d[t], store_id)
        ELSE IF t \in RelationshipTables THEN Nullify(d[t], store_id)
        ELSE d[t]]

\* DELETE /api/stores/{store_id}: a row of a table without relationship
\* that still references the store makes the DELETE fail on its foreign key
delete_store(store_id) ==
    /\ IF store_id \notin DOMAIN db.stores
       THEN /\ Answered("delete_store",
                  HTTPException("delete_store", store_id, 404, "Store not found"))
            /\ UNCHANGED db
       ELSE IF \E t \in DependentTables \ RelationshipTables :
                  References(db, t, store_id) # {}
       THEN /\ Answered("delete_store", ServerError("delete_store", store_id))
            /\ UNCHANGED db
       ELSE /\ db' = delete_store_rows(db, store_id)
            /\ Answered("delete_store",
                  Returned("delete_store", store_id, 204, NoValue))
    /\ UNCHANGED next_id

\* GET /api/theft-incidents
get_theft_incidents(store_id) ==
    /\ Answered("get_theft_incidents",
          Returned("get_theft_incidents", store_id, 200, SummaryIncidents(store_id)))
    /\ UNCHANGED <<db, next_id>>

\* variant: resolving toggles the flag
MarkResolved_toggle(incident) == [incident EXCEPT !.resolved = ~@]

\* db_incident.resolved = True
MarkResolved(incident) == [incident EXCEPT !.resolved = TRUE]

\* variant: the hour is taken from the request, the day from the timestamp
NewTheftIncident_hour0(store_id, timestamp, value) ==
    [store_id |-> store_id, timestamp |-> timestamp,
     day_of_week |-> dt_day_name(timestamp), hour |-> 0,
     value |-> value, resolved |-> FALSE]

\* TheftIncident(**incident.dict(), day_of_week=..., hour=..., resolved=False)
NewTheftIncident(store_id, timestamp, value) ==
    [store_id |-> store_id, timestamp |-> timestamp,
     day_of_week |-> dt_day_name(timestamp), hour |-> dt_hour(timestamp),
     value |-> value, resolved |-> FALSE]

\* POST /api/theft-incidents: a store_id without store row fails on the
\* foreign key
create_theft_incident(store_id, timestamp, value) ==
    /\ next_id.theft_incidents <= MaxDbIncidents
    /\ IF store_id \notin DOMAIN db.stores
       THEN /\ Answered("create_theft_incident",
                        ServerError("create_theft_incident", store_id))
            /\ UNCHANGED <<db, next_id>>
       ELSE /\ db' = [db EXCEPT !.theft_incidents =
                        Insert(@, next_id.theft_incidents,
                               NewTheftIncident(store_id, timestamp, value))]
            /\ next_id' = [next_id EXCEPT !.theft_incidents = @ + 1]
            /\ Answered("create_theft_incident",
                  Returned("create_theft_incident", next_id.theft_incidents, 201,
                           NewTheftIncident(store_id, timestamp, value)))

\* PUT /api/theft-incidents/{incident_id}/resolve
resolve_theft_incident(incident_id) ==
    /\ IF incident_id \notin DOMAIN db.theft_incidents
       THEN /\ Answered("resolve_theft_incident",
                  HTTPException("resolve_theft_incident", incident_id, 404,
                                "Theft incident not found"))
            /\ UNCHANGED db
       ELSE /\ db' = [db EXCEPT !.theft_incidents[incident_id] = MarkResolved(@)]
            /\ Answered("resolve_theft_incident",
                  Returned("resolve_theft_incident", incident_id, 200,
                           MarkResolved(db.theft_incidents[incident_id])))
    /\ UNCHANGED next_id

(***************************************************************************)
(* save_data_to_db and load_data_from_db                                   *)
(***************************************************************************)

\* the order in which both functions go through the record tables
TableOrder == <<"theft_incidents", "rewards_data", "campaign_performance",
                "traffic_data", "traffic_patterns", "employee_data",
                "mobile_usage_patterns", "business_health">>

\* the session frame each table is saved from and loaded to
FrameName(t) ==
    CASE t = "stores" -> "store_info"
      [] t = "theft_incidents" -> "theft_data"
      [] t = "rewards_data" -> "rewards_data"
      [] t = "campaign_performance" -> "campaign_performance"
      [] t = "traffic_data" -> "daily_traffic"
      [] t = "traffic_patterns" -> "traffic_patterns"
      [] t = "employee_data" -> "shift_usage_data"
      [] t = "mobile_usage_patterns" -> "mobile_usage_patterns"
      [] t = "business_health" -> "business_health"

\* st.session_state: the frames by name
SessionFrames ==
    [store_info |-> store_info, theft_data |-> theft_data,
     rewards_data |-> rewards_data,
     campaign_performance |-> campaign_performance,
     daily_traffic |-> daily_traffic, traffic_patterns |-> traffic_patterns,
     shift_usage_data |-> shift_usage_data,
     mobile_usage_patterns |-> mobile_usage_patterns,
     business_health |-> business_health]

\* st.session_state.<name> = frames.<name> for every frame
AssignFrames(frames) ==
    /\ store_info' = frames.store_info
    /\ theft_data' = frames.theft_data
    /\ rewards_data' = frames.rewards_data
    /\ campaign_performance' = frames.campaign_performance
    /\ daily_traffic' = frames.daily_traffic
    /\ traffic_patterns' = frames.traffic_patterns
    /\ shift_usage_data' = frames.shift_usage_data
    /\ mobile_usage_patterns' = frames.mobile_usage_patterns
    /\ business_health' = frames.business_health

FrameOf(t) == SessionFrames[FrameName(t)]

\* the alerts column is text: str(list) on the way in, eval(text) on the
\* way out; an empty or missing text reads as the empty list
python_str(alerts) == [kind |-> "repr", of |-> alerts]

EmptyText == [kind |-> "empty", of |-> <<>>]

python_eval(text) == text.of

\* variant: the alerts are not read back
AlertsFromText_empty(text) == <<>>

\* eval(health.alerts) if health.alerts else []
AlertsFromText(text) == IF text.kind = "repr" THEN python_eval(text) ELSE <<>>

\* stores = {store.name: store.id for store in session.query(Store).all()}:
\* of two stores with one name the later row wins; NULL when there is none
StoreIdByName(stores, name) ==
    LET ids == {i \in DOMAIN stores : stores[i].name = name}
    IN  IF ids = {} THEN NULL ELSE CHOOSE i \in ids : \A j \in ids : j <= i

\* the table row save_data_to_db builds from a frame row
ToDbRow(t, r, store_id) ==
    [f \in (DOMAIN r \ {"store"}) \cup {"store_id"} |->
        IF f = "store_id" THEN store_id
        ELSE IF f = "alerts" THEN python_str(r[f])
        ELSE r[f]]

\* the frame row load_data_from_db builds from a table row
FromDbRow(t, row, stores) ==
    [f \in (DOMAIN row \ {"store_id"}) \cup {"store"} |->
        IF f = "store" THEN stores[row.store_id].name
        ELSE IF f = "alerts" THEN AlertsFromText(row[f])
        ELSE row[f]]

\* session.add for every row of the sequence
InsertAll(t, first_id, rows) ==
    [i \in DOMAIN t \cup {first_id + k - 1 : k \in 1..Len(rows)} |->
        IF i \in DOMAIN t THEN t[i] ELSE rows[i - first_id + 1]]

\* the stores table after the first commit of save_data_to_db
StoresSaved(d, ids) ==
    InsertAll(d.stores, ids.stores,
              [i \in 1..Len(store_info) |-> [name |-> store_info[i].store_name]])

\* the rows of a frame whose store has an id, as table rows
RowsToSave(t, stores) ==
    LET known == SelectSeq(FrameOf(t),
                           LAMBDA r : StoreIdByName(stores, r.store) # NULL)
    IN  [i \in 1..Len(known) |->
            ToDbRow(t, known[i], StoreIdByName(stores, known[i].store))]

\* variant: the rollback also undoes the stores
SavedDb_atomic(d, ids, fail) ==
    IF fail # "none" THEN d
    ELSE LET stores == StoresSaved(d, ids)
         IN  [t \in Tables |->
                IF t = "stores" THEN stores
                ELSE InsertAll(d[t], ids[t], RowsToSave(t, stores))]

\* the database after save_data_to_db.  The stores are committed first;
\* an exception before that commit rolls everything back, an exception
\* after it rolls back the records only.
SavedDb(d, ids, fail) ==
    IF fail = "stores" THEN d
    ELSE LET stores == StoresSaved(d, ids)
         IN  [t \in Tables |->
                IF t = "stores" THEN stores
                ELSE IF fail = "records" THEN d[t]
                ELSE InsertAll(d[t], ids[t], RowsToSave(t, stores))]

SavePoints == {"none", "stores", "records"}

\* save_data_to_db; fail names the part in which an exception is raised
save_data_to_db(fail) ==
    /\ view' = "save_data_to_db"
    /\ db' = SavedDb(db, next_id, fail)
    /\ next_id' = [t \in Tables |->
                     next_id[t] + Cardinality(DOMAIN db'[t] \ DOMAIN db[t])]
    /\ response' = [op |-> "save_data_to_db", id |-> 0,
                    status |-> (fail = "none"),
                    detail |-> [before |-> db, store_info |-> store_info]]
    /\ UNCHANGED frontend

\* the position of a table in TableOrder
TableIndex(t) == CHOOSE i \in 1..Len(TableOrder) : TableOrder[i] = t

\* a row whose store is gone makes store.name raise
HasOrphan(t) == \E i \in DOMAIN db[t] : db[t][i].store_id \notin DOMAIN db.stores

\* the first table at which the load raises: the one the database fails
\* at, or an earlier one that holds a row without store; 0 for the query
\* of the stores, Len(TableOrder) + 1 when nothing raises
FailIndex(fail_at) ==
    LET raising == {i \in 1..Len(TableOrder) :
                       HasOrphan(TableOrder[i]) \/ TableOrder[i] = fail_at}
    IN  IF fail_at \in {"init_db", "stores"} THEN 0
        ELSE IF raising = {} THEN Len(TableOrder) + 1
        ELSE CHOOSE i \in raising : \A j \in raising : i <= j

\* is the load stopped before it assigns anything
LoadsNothing(fail_at) ==
    fail_at \in {"init_db", "stores"} \/ db.stores = EmptyTable

\* variant: no frame is assigned unless every table has been read
LoadedFrame_atomic(t, current, fail_at) ==
    LET rows == RowsOf(db[t])
    IN  IF LoadsNothing(fail_at) \/ FailIndex(fail_at) <= Len(TableOrder)
           \/ rows = <<>>
        THEN current
        ELSE [i \in 1..Len(rows) |-> FromDbRow(t, rows[i], db.stores)]

\* the session frame of table t after load_data_from_db: replaced when the
\* table was read without exception and has rows
LoadedFrame(t, current, fail_at) ==
    LET rows == RowsOf(db[t])
    IN  IF LoadsNothing(fail_at) \/ FailIndex(fail_at) <= TableIndex(t)
           \/ rows = <<>>
        THEN current
        ELSE [i \in 1..Len(rows) |-> FromDbRow(t, rows[i], db.stores)]

\* store_info is assigned as soon as the stores have been read
LoadedStoreInfo(current, fail_at) ==
    IF LoadsNothing(fail_at) THEN current
    ELSE [i \in 1..Cardinality(DOMAIN db.stores) |->
            [store_name |-> RowsOf(db.stores)[i].name]]

\* the points at which the database can fail: the connection made by
\* init_db, or the query of one table
LoadPoints == {"none", "init_db"} \cup Tables

\* the frames after load_data_from_db
LoadedFrames(frames, fail_at) ==
    [f \in DOMAIN frames |->
        IF f = "store_info" THEN LoadedStoreInfo(frames[f], fail_at)
        ELSE LET t == CHOOSE t \in DependentTables : FrameName(t) = f
             IN  LoadedFrame(t, frames[f], fail_at)]

\* load_data_from_db; fail_at names the point at which the database
\* raises.  init_db and get_session run before the try, so their
\* exception leaves the function.
load_data_from_db(fail_at) ==
    /\ view' = "load_data_from_db"
    /\ AssignFrames(LoadedFrames(SessionFrames, fail_at))
    /\ response' = [op |-> "load_data_from_db", id |-> 0,
                    status |-> (~LoadsNothing(fail_at)
                                  /\ FailIndex(fail_at) > Len(TableOrder)),
                    raised |-> (fail_at = "init_db"),
                    detail |-> [before |-> SessionFrames, fail_at |-> fail_at]]
    /\ UNCHANGED <<db, next_id, selection, outputs, generator_state, kpis,
                   enhanced_rewards, enhanced_theft, enhanced_campaigns,
                   page_state>>

(***************************************************************************)
(* generate_demo_data: the frames of a session, one store with records     *)
(***************************************************************************)

EveningHour == 17

\* an instant generate_theft_data keeps: its hour is in 17..22
EveningInstant == (LastInstant \div HoursPerDay) * HoursPerDay + EveningHour

\* the record generate_theft_data appends for a kept timestamp
TheftRecord(store, timestamp, value, resolved) ==
    [store |-> store, timestamp |-> timestamp,
     day_of_week |-> dt_day_name(timestamp), hour |-> dt_hour(timestamp),
     value |-> value, resolved |-> resolved]

\* what the random draws of one run decide here: whether a theft record
\* is kept, the size of the metrics, the raw health scores
DemoDraws == [theft : BOOLEAN, value : {10, 20},
              health : {<<49, 80, 80, 80>>, <<80, 80, 80, 80>>}]

\* the frames generate_demo_data stores
DemoFrames(draw) ==
    LET store == sorted_store_names[1]
    IN  [store_info |-> [i \in 1..Len(sorted_store_names) |->
                            [store_name |-> sorted_store_names[i]]],
         theft_data |-> IF draw.theft
                        THEN <<TheftRecord(store, EveningInstant, draw.value, TRUE)>>
                        ELSE <<>>,
         rewards_data |-> <<[store |-> store, date |-> FirstInstant,
                             total_members |-> 2500 + draw.value,
                             new_members |-> draw.value]>>,
         campaign_performance |-> <<[store |-> store,
                                     campaign |-> "Summer Savings",
                                     participation_rate |-> draw.value,
                                     redemption_rate |-> draw.value \div 2]>>,
         daily_traffic |-> <<[store |-> store, date |-> FirstInstant,
                              total_visitors |-> draw.value]>>,
         traffic_patterns |-> <<[store |-> store,
                                 day_of_week |-> dt_day_name(FirstInstant),
                                 hour |-> dt_hour(FirstInstant),
                                 visitor_count |-> draw.value]>>,
         shift_usage_data |-> <<[store |-> store, date |-> FirstInstant,
                                 mobile_usage_incidents |-> draw.value,
                                 avg_duration_minutes |-> 2]>>,
         mobile_usage_patterns |-> <<[store |-> store,
                                      day_of_week |-> dt_day_name(FirstInstant),
                                      hour |-> dt_hour(FirstInstant),
                                      mobile_usage_incidents |-> draw.value]>>,
         business_health |-> <<HealthRecord(store, FirstInstant,
                                            RawHealth(draw.health))>>]

\* generate_demo_data: every frame is replaced
generate_demo_data(draw) ==
    /\ view' = "generate_demo_data"
    /\ AssignFrames(DemoFrames(draw))
    /\ UNCHANGED <<db, next_id, response, selection, outputs, generator_state,
                   kpis, enhanced_rewards, enhanced_theft, enhanced_campaigns,
                   page_state>>

\* a session with generated data and a new database
InitSession(draw) ==
    /\ store_info = DemoFrames(draw).store_info
    /\ theft_data = DemoFrames(draw).theft_data
    /\ rewards_data = DemoFrames(draw).rewards_data
    /\ campaign_performance = DemoFrames(draw).campaign_performance
    /\ daily_traffic = DemoFrames(draw).daily_traffic
    /\ traffic_patterns = DemoFrames(draw).traffic_patterns
    /\ shift_usage_data = DemoFrames(draw).shift_usage_data
    /\ mobile_usage_patterns = DemoFrames(draw).mobile_usage_patterns
    /\ business_health = DemoFrames(draw).business_health
    /\ db = EmptyDb
    /\ next_id = FirstIds
    /\ response = [op |-> NoValue, id |-> 0, status |-> 0, detail |-> NoValue]
    /\ kpis = NoValue
    /\ initialized = TRUE
    /\ raw_health = <<>>
    /\ enhanced_health = <<>>
    /\ enhanced_rewards = <<>>
    /\ enhanced_theft = <<>>
    /\ enhanced_campaigns = <<>>
    /\ InitPage
    /\ InitSelection
    /\ InitOutputs

(***************************************************************************)
(* The API server next to a dashboard session                              *)
(***************************************************************************)

InitApi == InitSession([theft |-> TRUE, value |-> 10, health |-> <<49, 80, 80, 80>>])

\* do the rows of one more save fit the bounds of the tables
SaveFits ==
    /\ next_id.stores + Len(store_info) - 1 <= MaxDbStores
    /\ next_id.theft_incidents + Len(theft_data) - 1 <= MaxDbIncidents

StoreIds == 1..(MaxDbStores + 1)

IncidentIds == 1..(MaxDbIncidents + 1)

NextApi ==
    \/ get_stores
    \/ \E name \in Stores : create_store(name)
    \/ \E store_id \in StoreIds : get_store(store_id)
    \/ \E store_id \in StoreIds, name \in Stores : update_store(store_id, name)
    \/ \E store_id \in StoreIds : delete_store(store_id)
    \/ \E store_id \in {0, 1} : get_theft_incidents(store_id)
    \/ \E store_id \in StoreIds, timestamp \in {FirstInstant, LastInstant} :
          create_theft_incident(store_id, timestamp, 10)
    \/ \E incident_id \in IncidentIds : resolve_theft_incident(incident_id)
    \/ SaveFits /\ save_data_to_db("none")

SpecApi == InitApi /\ [][NextApi]_vars

\* C12: once a stored theft incident is resolved, no operation makes it
\* unresolved or removes the mark: it is still stored and resolved after
\* every step, a repeated resolve included.
C12_ResolvedStays ==
    [][\A i \in DOMAIN db.theft_incidents :
          db.theft_incidents[i].resolved =>
             /\ i \in DOMAIN db'.theft_incidents
             /\ db'.theft_incidents[i].resolved]_vars

\* C12 witness: a store has been deleted and an incident of it, resolved
\* before, is still stored and resolved.
C12_Witness ==
    /\ view = "delete_store"
    /\ response.status = 204
    /\ \E i \in DOMAIN db.theft_incidents :
          /\ db.theft_incidents[i].resolved
          /\ db.theft_incidents[i].store_id = NULL

\* C13: a GET, PUT or DELETE of /api/stores/{id} with an id that has no
\* store row, and a resolve with an id that has no incident row, is answered
\* with status 404 and changes no row of the database.
C13_AbsentIdIs404 ==
    [][(\/ /\ view' \in {"get_store", "update_store", "delete_store"}
           /\ response'.id \notin DOMAIN db.stores
        \/ /\ view' = "resolve_theft_incident"
           /\ response'.id \notin DOMAIN db.theft_incidents)
       => /\ response'.status = 404
          /\ db' = db]_vars

\* C13 witness: a DELETE of an absent store id was answered 404 while the
\* database holds a store and an incident.
C13_Witness ==
    /\ view = "delete_store"
    /\ response.status = 404
    /\ response.id \notin DOMAIN db.stores
    /\ DOMAIN db.stores # {}
    /\ DOMAIN db.theft_incidents # {}

\* C14: every dependent record belongs to exactly one existing store: the
\* store_id of every row of the eight record tables is the id of a row of
\* the stores table (deleting a store removes its records).
C14_DependentsHaveStore ==
    \A t \in DependentTables : \A i \in DOMAIN db[t] :
        db[t][i].store_id \in DOMAIN db.stores

\* the theft records that are held: session frame, table rows, and the
\* objects generate_enhanced_data builds
HeldTheftRecords ==
    Range(theft_data) \cup Range(RowsOf(db.theft_incidents)) \cup Range(enhanced_theft)

\* C20: every theft record that is held has the weekday name of its
\* timestamp as day_of_week and the hour of its timestamp as hour.
C20_DayAndHourFromTimestamp ==
    \A r \in HeldTheftRecords :
        /\ r.day_of_week = day_order[((r.timestamp \div HoursPerDay) % 7) + 1]
        /\ r.hour = r.timestamp % HoursPerDay

\* C20 witness: an incident created through the API on Friday at 12h has
\* been resolved after its store was deleted; it still reads Friday, 12.
C20_Witness ==
    /\ view = "resolve_theft_incident"
    /\ response.status = 200
    /\ db.theft_incidents[response.id].timestamp = LastInstant
    /\ db.theft_incidents[response.id].hour = 12
    /\ db.theft_incidents[response.id].day_of_week = "Friday"
    /\ db.theft_incidents[response.id].store_id = NULL

(***************************************************************************)
(* The database page of the dashboard: generate, save, load                *)
(***************************************************************************)

InitPersist == \E draw \in DemoDraws : InitSession(draw)

\* do the stores of one more save fit the bound of the table
SaveFitsStores == next_id.stores + Len(store_info) - 1 <= MaxDbStores

NextPersist ==
    \/ \E draw \in DemoDraws : generate_demo_data(draw)
    \/ SaveFitsStores /\ \E fail \in SavePoints : save_data_to_db(fail)
    \/ \E fail_at \in LoadPoints : load_data_from_db(fail_at)

SpecPersist == InitPersist /\ [][NextPersist]_vars

\* C15: a save that returned False has left the database with exactly the
\* rows it had before the call; a save that returned True has stored every
\* store of store_info and every record of a known store.
C15_SaveAllOrNothing ==
    view = "save_data_to_db" =>
        IF response.status
        THEN /\ \A i \in 1..Len(store_info) :
                   \E j \in DOMAIN db.stores :
                       db.stores[j].name = store_info[i].store_name
             /\ \A t \in DependentTables :
                   Cardinality(DOMAIN db[t]) >=
                      Cardinality(DOMAIN response.detail.before[t]) + Len(FrameOf(t))
        ELSE db = response.detail.before

\* C16: a load that failed returned False without raising, and every
\* session frame has the content it had before the call.
C16_FailedLoadLeavesSession ==
    (view = "load_data_from_db" /\ ~response.status) =>
        /\ ~response.raised
        /\ SessionFrames = response.detail.before

NumRewardDays == 2      \* dates generate_rewards_data iterates over

\* base_members: the starting member count of a store
base_members(store) == IF store = "Downtown Mart" THEN 2500 ELSE 1800

\* np.random.normal(0.005, 0.002): the growth rate in thousandths; a
\* normal draw has no lower bound
GrowthDraws == {-2, 5}

\* int(members * growth_rate): truncation towards zero
NewMembers(members, growth_rate) ==
    IF members * growth_rate >= 0 THEN (members * growth_rate) \div 1000
    ELSE -((-(members * growth_rate)) \div 1000)

\* members after the first k dates of the loop
RECURSIVE Members(_, _, _)
Members(store, growth, k) ==
    IF k = 0 THEN base_members(store)
    ELSE AfterGrowth(Members(store, growth, k - 1),
                     NewMembers(Members(store, growth, k - 1), growth[k]))

\* pd.date_range(start_date.date(), end_date.date()): one midnight a day,
\* forwards in time
RewardDate(k) == (k - 1) * HoursPerDay

\* members_records.append({...})
RewardsRecord(store, growth, k) ==
    [store |-> store, date |-> RewardDate(k),
     total_members |-> Members(store, growth, k),
     new_members |-> NewMembers(Members(store, growth, k - 1), growth[k])]

RewardSlotOf(i) ==
    <<((i - 1) \div NumRewardDays) + 1, ((i - 1) % NumRewardDays) + 1>>

\* generate_rewards_data: the member records of every store and date, and
\* the campaign frame
\* participation = np.random.uniform(20, 80); redemption = participation *
\* np.random.uniform(0.3, 0.8); the factor is drawn in hundredths
CampaignDraws == [participation : {20, 80}, factor : {30, 80}]

\* campaign_data.append({...})
CampaignRecord(store, draw) ==
    [store |-> store, campaign |-> "Summer Savings",
     participation_rate |-> Pt(draw.participation),
     redemption_rate |-> (Pt(draw.participation) * draw.factor) \div 100]

generate_rewards_data(growth, campaigns) ==
    /\ rewards_data' = [i \in 1..(Len(sorted_store_names) * NumRewardDays) |->
            RewardsRecord(sorted_store_names[RewardSlotOf(i)[1]],
                          growth[RewardSlotOf(i)[1]], RewardSlotOf(i)[2])]
    /\ campaign_performance' = [s \in 1..Len(sorted_store_names) |->
            CampaignRecord(sorted_store_names[s], campaigns[s])]
    /\ view' = "generate_rewards_data"
    /\ UNCHANGED <<theft_data, daily_traffic, shift_usage_data, business_health,
                   traffic_patterns, mobile_usage_patterns, selection, outputs,
                   generator_state, store_info, db, next_id, response, kpis,
                   enhanced_rewards, enhanced_theft, enhanced_campaigns,
                   page_state>>

NextRewards ==
    \/ \E growth \in [1..Len(sorted_store_names) ->
                          [1..NumRewardDays -> GrowthDraws]] :
          generate_rewards_data(growth,
              [s \in 1..Len(sorted_store_names) |->
                  [participation |-> 80, factor |-> 30]])
    \/ \E members \in EnhancedMembers, theft \in EnhancedThefts :
          generate_enhanced_data([slot \in EnhancedSlots |-> <<80, 80, 80, 80, 80>>],
                                 members, theft,
                                 [participation |-> 80, redemption |-> 10])

SpecRewards == InitFresh /\ [][NextRewards]_vars

\* the record generated just before record i of the frame for the same
\* store, 0 when record i is the first of its store
PreviousOf(frame, i) ==
    IF i > 1 /\ frame[i - 1].store = frame[i].store THEN i - 1 ELSE 0

\* C18: in every rewards record of both generators, new_members is
\* total_members minus the total_members of the record generated before it
\* for the same store, and for the first record of a store minus the
\* starting count (base_members, or a draw from 500..2000).
C18_NewMembersIsDifference ==
    /\ \A i \in 1..Len(rewards_data) :
          rewards_data[i].new_members =
             rewards_data[i].total_members -
                (IF PreviousOf(rewards_data, i) = 0
                 THEN base_members(rewards_data[i].store)
                 ELSE rewards_data[i - 1].total_members)
    /\ \A i \in 1..Len(enhanced_rewards) :
          IF PreviousOf(enhanced_rewards, i) = 0
          THEN enhanced_rewards[i].total_members - enhanced_rewards[i].new_members
                  \in 500..2000
          ELSE enhanced_rewards[i].new_members =
                  enhanced_rewards[i].total_members -
                     enhanced_rewards[i - 1].total_members

\* C18 witness: both generators have run; a store grew by 12 and then by
\* 12 again from 2500, another run added 15 and then 1 member to 500.
C18_Witness ==
    /\ Len(rewards_data) >= 2
    /\ rewards_data[1].total_members = 2512
    /\ rewards_data[2].new_members = 12
    /\ rewards_data[2].total_members = 2524
    /\ Len(enhanced_rewards) >= 2
    /\ enhanced_rewards[1].total_members = 515
    /\ enhanced_rewards[2].new_members = 1
    /\ enhanced_rewards[2].total_members = 516

\* C19: per store, the rewards records in increasing date order have
\* non-decreasing total_members, and no record has negative new_members.
C19_MembersNeverDecrease ==
    \A frame \in {rewards_data, enhanced_rewards} :
        /\ \A i \in 1..Len(frame) : frame[i].new_members >= 0
        /\ \A i, j \in 1..Len(frame) :
              (frame[i].store = frame[j].store /\ frame[i].date < frame[j].date)
                 => frame[i].total_members <= frame[j].total_members

(***************************************************************************)
(* Campaign performance records                                            *)
(***************************************************************************)

MaxDbCampaigns == 1     \* campaign_performance rows the API adds

\* api.py, POST /api/campaigns: CampaignPerformance(**campaign.dict()); the
\* payload is stored as it is; a store_id without store row fails on the
\* foreign key
create_campaign_data(store_id, participation_rate, redemption_rate) ==
    /\ next_id.campaign_performance <= MaxDbCampaigns
    /\ IF store_id \notin DOMAIN db.stores
       THEN /\ Answered("create_campaign_data",
                        ServerError("create_campaign_data", store_id))
            /\ UNCHANGED <<db, next_id>>
       ELSE /\ db' = [db EXCEPT !.campaign_performance =
                        Insert(@, next_id.campaign_performance,
                               [store_id |-> store_id, campaign |-> "Coffee Club",
                                participation_rate |-> participation_rate,
                                redemption_rate |-> redemption_rate])]
            /\ next_id' = [next_id EXCEPT !.campaign_performance = @ + 1]
            /\ Answered("create_campaign_data",
                  Returned("create_campaign_data", next_id.campaign_performance,
                           201, NoValue))

NextCampaign ==
    \/ \E campaigns \in [1..Len(sorted_store_names) -> CampaignDraws] :
          generate_rewards_data(
              [s \in 1..Len(sorted_store_names) |-> [k \in 1..NumRewardDays |-> 5]],
              campaigns)
    \/ \E campaign \in EnhancedCampaigns :
          generate_enhanced_data([slot \in EnhancedSlots |-> <<80, 80, 80, 80, 80>>],
                                 [start |-> 500, new |-> [k \in 1..NumEnhancedDays |-> 1]],
                                 [date |-> 1, hour |-> 6], campaign)
    \/ \E store_id \in 1..2, p \in {Pt(20), Pt(80)}, r \in {Pt(10), Pt(50)} :
          create_campaign_data(store_id, p, r)

SpecCampaign == InitFresh /\ [][NextCampaign]_vars

\* the campaign records that are held: session frame, objects built by
\* generate_enhanced_data, table rows
HeldCampaigns ==
    Range(campaign_performance) \cup Range(enhanced_campaigns)
        \cup Range(RowsOf(db.campaign_performance))

\* C21: every campaign performance record created or accepted has
\* redemption_rate <= participation_rate.
C21_RedemptionAtMostParticipation ==
    \A c \in HeldCampaigns : c.redemption_rate <= c.participation_rate

(***************************************************************************)
(* show_combined_analysis: the correlation insight                         *)
(***************************************************************************)

\* A correlation coefficient is held in thousandths: the two ends and the
\* values around the two bounds.  The values whose third decimal is 5 are
\* left out: their rounding depends on the binary value of the float.
CorrelationValues ==
    {r \in -400..400 : (IF r < 0 THEN 0 - r ELSE r) % 10 # 5} \cup {-1000, 1000}

\* round(x, 2) of a value in thousandths
round2(r) ==
    IF r >= 0 THEN ((r + 5) \div 10) * 10
    ELSE 0 - (((0 - r) + 5) \div 10) * 10

\* variant: the bounds 0.3 and -0.3 belong to the correlated cases
correlation_narrative_inclusive(correlation_value) ==
    IF correlation_value >= 300 THEN "positive"
    ELSE IF correlation_value <= -300 THEN "negative"
    ELSE "no strong correlation"

\* if correlation_value > 0.3: ... elif correlation_value < -0.3: ... else: ...
correlation_narrative(correlation_value) ==
    IF correlation_value > 300 THEN "positive"
    ELSE IF correlation_value < -300 THEN "negative"
    ELSE "no strong correlation"

\* the end of show_combined_analysis for the coefficient r of the scatter
\* data: the coefficient is rounded to two decimals, then classified
show_correlation_insight(r) ==
    /\ view' = "show_combined_analysis"
    /\ insight' = [value |-> r, narrative |-> correlation_narrative(round2(r))]
    /\ UNCHANGED <<session_data, selection, outputs, generator_state,
                   store_info, campaign_performance, db, next_id, response, kpis,
                   enhanced_rewards, enhanced_theft, enhanced_campaigns,
                   user_role, selected_store, active_module, show_demo_warning,
                   messages, login_store>>

NextCorrelation == \E r \in CorrelationValues : show_correlation_insight(r)

SpecCorrelation == InitFresh /\ [][NextCorrelation]_vars

\* C23 as stated: the narrative is the positive one iff r > 0.3, the negative
\* one iff r < -0.3, and the third one otherwise.
C23_NarrativeByCoefficient ==
    view = "show_combined_analysis" =>
        /\ insight.narrative = "positive" <=> insight.value > 300
        /\ insight.narrative = "negative" <=> insight.value < -300
        /\ insight.narrative = "no strong correlation"
                <=> (insight.value >= -300 /\ insight.value <= 300)

\* C23 amended: exactly one narrative is shown, chosen by the coefficient
\* rounded to two decimals: positive iff the rounded value is above 0.3
\* (r above 0.305), negative iff it is below -0.3 (r below -0.305), and no
\* strong correlation otherwise.
C23_NarrativeByRoundedCoefficient ==
    view = "show_combined_analysis" =>
        /\ insight.narrative \in {"positive", "negative", "no strong correlation"}
        /\ insight.narrative = "positive" <=> insight.value > 305
        /\ insight.narrative = "negative" <=> insight.value < -305
        /\ insight.narrative = "no strong correlation"
                <=> (insight.value > -305 /\ insight.value < 305)

\* C23 witness: r = 0.302 is above 0.3 and is shown as no strong correlation.
C23_Witness ==
    /\ view = "show_combined_analysis"
    /\ insight.value = 302
    /\ insight.narrative = "no strong correlation"

(***************************************************************************)
(* api.py, GET /api/theft-incidents: the query by store and dates          *)
(***************************************************************************)

\* a date compared with a timestamp column: the midnight that starts it
DateAsTimestamp(d) == d * HoursPerDay

\* query.filter(...) for each parameter that is given; store_id 0 and the
\* date NULL stand for a parameter that is left out
QueryTheftIncidents(store_id, start_date, end_date) ==
    {i \in DOMAIN db.theft_incidents :
        /\ store_id # 0 => db.theft_incidents[i].store_id = store_id
        /\ start_date # NULL =>
              db.theft_incidents[i].timestamp >= DateAsTimestamp(start_date)
        /\ end_date # NULL =>
              db.theft_incidents[i].timestamp <= DateAsTimestamp(end_date)}

\* GET /api/theft-incidents of api.py with store_id, start_date, end_date
api_get_theft_incidents(store_id, start_date, end_date) ==
    /\ Answered("api_get_theft_incidents",
          Returned("api_get_theft_incidents", store_id, 200,
                   [start_date |-> start_date, end_date |-> end_date,
                    incidents |-> QueryTheftIncidents(store_id, start_date,
                                                      end_date)]))
    /\ UNCHANGED <<db, next_id>>

NextQuery ==
    \/ \E name \in Stores : create_store(name)
    \/ \E store_id \in 1..2, timestamp \in Instants :
          create_theft_incident(store_id, timestamp, 10)
    \/ \E store_id \in 0..1, start_date \in Days \cup {NULL},
          end_date \in Days \cup {NULL} :
          api_get_theft_incidents(store_id, start_date, end_date)

SpecQuery == InitApi /\ [][NextQuery]_vars

\* the calendar day of a timestamp
DateOf(timestamp) == timestamp \div HoursPerDay

\* C24: a query with end_date D returns every stored incident (of the store
\* asked for) whose timestamp falls on D or earlier, any hour of D
\* included; a query with start_date D returns every one on or after D.
C24_DateBoundsInclusive ==
    (view = "api_get_theft_incidents" /\ response.status = 200) =>
        \A i \in DOMAIN db.theft_incidents :
            LET incident == db.theft_incidents[i]
                q == response.detail
            IN  (/\ response.id # 0 => incident.store_id = response.id
                 /\ q.start_date # NULL => DateOf(incident.timestamp) >= q.start_date
                 /\ q.end_date # NULL => DateOf(incident.timestamp) <= q.end_date)
                    => i \in q.incidents

(***************************************************************************)
(* app.py: one run of the script.  Streamlit runs the whole script after   *)
(* every interaction; the values of the widgets are the inputs of a run.   *)
(***************************************************************************)

\* utils.get_store_names
get_store_names ==
    IF store_info = <<>> THEN <<"Store 1", "Store 2", "Store 3">>
    ELSE [i \in 1..Len(store_info) |-> store_info[i].store_name]

\* utils.set_user_role(role); current is st.session_state.selected_store at
\* the call
set_user_role(role, current) ==
    /\ user_role' = role
    /\ IF role = "Manager" /\ current = NoValue
       THEN /\ selected_store' = get_store_names[1]
            /\ selected_stores' = {get_store_names[1]}
       ELSE /\ selected_store' = current
            /\ UNCHANGED selected_stores

\* what no run of the script touches
ui_idle == <<generator_state, kpis, response, insight, enhanced_rewards,
             enhanced_theft, enhanced_campaigns>>

\* the frames of the session
session_frames == <<session_data, store_info, campaign_performance>>

\* utils.show_login_screen, the run of the script while nobody is logged
\* in: the radio holds role, the select box (shown for a Manager) holds
\* store, and Login is pressed or not
show_login_screen(role, store, pressed) ==
    LET current == IF role = "Manager" THEN store ELSE selected_store
    IN  /\ user_role = NoValue
        /\ store \in Range(get_store_names)
        /\ IF pressed
           THEN /\ set_user_role(role, current)
                /\ messages' = {"Logged in as " \o role}
                /\ login_store' = IF role = "Manager" THEN store ELSE login_store
           ELSE /\ selected_store' = current
                /\ messages' = {}
                /\ UNCHANGED <<user_role, selected_stores, login_store>>
        /\ Ran("show_login_screen", NoValue, NoValue, NoValue, NoValue, NoValue,
               NoValue)
        /\ UNCHANGED <<session_frames, db, next_id, date_range, active_module,
                       show_demo_warning, ui_idle>>

\* the instants datetime.now() returns during a run
Clock == {EveningInstant + 1}

\* x.replace(hour=0, minute=0, second=0)
Midnight(t) == (t \div HoursPerDay) * HoursPerDay

\* variant: the Custom period is stored without comparing its two dates
date_selector_unchecked(current, date_option, now, start_date, end_date) ==
    CASE date_option = "Today" ->
            <<DateTimeValue(Midnight(now)), DateTimeValue(now)>>
      [] date_option = "Yesterday" ->
            <<DateTimeValue(Midnight(now - HoursPerDay)),
              DateTimeValue(Midnight(now - HoursPerDay) + 23)>>
      [] date_option = "Last 7 Days" ->
            <<DateTimeValue(now - 7 * HoursPerDay), DateTimeValue(now)>>
      [] date_option = "Last 30 Days" ->
            <<DateTimeValue(now - 30 * HoursPerDay), DateTimeValue(now)>>
      [] date_option = "Custom" ->
            <<DateValue(start_date), DateValue(end_date)>>

\* app.py, the date range selector: the value of date_range after it
date_selector(current, date_option, now, start_date, end_date) ==
    CASE date_option = "Today" ->
            <<DateTimeValue(Midnight(now)), DateTimeValue(now)>>
      [] date_option = "Yesterday" ->
            <<DateTimeValue(Midnight(now - HoursPerDay)),
              DateTimeValue(Midnight(now - HoursPerDay) + 23)>>
      [] date_option = "Last 7 Days" ->
            <<DateTimeValue(now - 7 * HoursPerDay), DateTimeValue(now)>>
      [] date_option = "Last 30 Days" ->
            <<DateTimeValue(now - 30 * HoursPerDay), DateTimeValue(now)>>
      [] date_option = "Custom" ->
            IF start_date <= end_date
            THEN <<DateValue(start_date), DateValue(end_date)>>
            ELSE current

\* st.sidebar.error("End date must be after start date")
date_selector_messages(date_option, start_date, end_date) ==
    IF date_option = "Custom" /\ start_date > end_date
    THEN {"End date must be after start date"} ELSE {}

\* variant: an empty multiselect is stored as it is
store_selector_nofallback(role, current, option, chosen) ==
    LET stores == get_store_names
    IN  IF role = "Owner"
        THEN [selected_store |-> current,
              selected_stores |-> IF option = "All Stores" THEN Range(stores)
                                  ELSE chosen]
        ELSE LET assigned == IF current # NoValue THEN current ELSE stores[1]
             IN  [selected_store |-> assigned, selected_stores |-> {assigned}]

\* variant: the Manager gets the store widgets of the Owner
store_selector_anyrole(role, current, option, chosen) ==
    LET stores == get_store_names
    IN  [selected_store |-> current,
         selected_stores |-> IF option = "All Stores" THEN Range(stores)
                             ELSE IF chosen = {} THEN {stores[1]}
                             ELSE chosen]

\* app.py, the store selector: selected_store and selected_stores after it.
\* option is the radio and chosen the multiselect of the Owner; the select
\* box of the Manager has the assigned store as its only option.
store_selector(role, current, option, chosen) ==
    LET stores == get_store_names
    IN  IF role = "Owner"
        THEN [selected_store |-> current,
              selected_stores |-> IF option = "All Stores" THEN Range(stores)
                                  ELSE IF chosen = {} THEN {stores[1]}
                                  ELSE chosen]
        ELSE LET assigned == IF current # NoValue THEN current ELSE stores[1]
             IN  [selected_store |-> assigned, selected_stores |-> {assigned}]

\* the inputs of the sidebar in one run
DateInputs ==
    [date_option : {"Today"}, now : Clock, start_date : {0}, end_date : {0}]
    \cup {[date_option |-> "Custom", now |-> t, start_date |-> d[1],
            end_date |-> d[2]] :
              t \in Clock, d \in {<<0, 4>>, <<4, 0>>}}

\* the default values of the sidebar widgets
DefaultDate ==
    [date_option |-> "Last 30 Days", now |-> EveningInstant + 1,
     start_date |-> 0, end_date |-> 0]

DefaultStores == [option |-> "All Stores", chosen |-> {}]

StoreInputs ==
    {DefaultStores}
    \cup [option : {"Select Specific Stores"},
          chosen : {{}, {get_store_names[Len(get_store_names)]}}]

\* the sidebar of a run: date range selector, then store selector
Sidebar(date_input, store_input) ==
    /\ date_range' = date_selector(date_range, date_input.date_option,
                                   date_input.now, date_input.start_date,
                                   date_input.end_date)
    /\ LET chosen_stores == store_selector(user_role, selected_store,
                                           store_input.option, store_input.chosen)
       IN  /\ selected_store' = chosen_stores.selected_store
           /\ selected_stores' = chosen_stores.selected_stores

SidebarMessages(date_input) ==
    date_selector_messages(date_input.date_option, date_input.start_date,
                           date_input.end_date)

\* the modules the navigation offers to a role
Modules(role) ==
    {"Global Command Center", "Theft Analytics", "Rewards Program Analytics",
     "Store Visit & Traffic Analytics", "Employee Productivity", "AI Assistant"}
    \cup (IF role = "Owner" THEN {"Database Admin"} ELSE {})

\* a run in which Logout is pressed: set_user_role(None); st.rerun()
Logout ==
    /\ user_role # NoValue
    /\ set_user_role(NoValue, selected_store)
    /\ messages' = {}
    /\ Ran("logout", NoValue, NoValue, NoValue, NoValue, NoValue, NoValue)
    /\ UNCHANGED <<session_frames, db, next_id, date_range, active_module,
                   show_demo_warning, login_store, ui_idle>>

\* a run in which a navigation button is pressed: the sidebar is done, then
\* active_module is set and the script starts again
Navigate(date_input, store_input, module) ==
    /\ user_role # NoValue
    /\ module \in Modules(user_role)
    /\ Sidebar(date_input, store_input)
    /\ active_module' = module
    /\ messages' = SidebarMessages(date_input)
    /\ Ran("navigate", NoValue, NoValue, NoValue, NoValue, NoValue, NoValue)
    /\ UNCHANGED <<session_frames, db, next_id, user_role, show_demo_warning,
                   login_store, ui_idle>>

(***************************************************************************)
(* The pages.  shown holds the alerts the sidebar displayed in the run,    *)
(* stores and range the selection the sidebar left.                        *)
(***************************************************************************)

\* a page displayed frame and alerts and wrote nothing
Displayed(name, frame, alerts) ==
    /\ Ran(name, frame, NoValue, NoValue, NoValue, NoValue, NoValue)
    /\ messages' = alerts
    /\ UNCHANGED <<db, next_id, show_demo_warning>>

\* theft_data['date'] = theft_data['timestamp'].dt.date
WithDate(df) ==
    [i \in 1..Len(df) |->
        [c \in DOMAIN df[i] \cup {"date"} |->
            IF c = "date" THEN df[i].timestamp \div HoursPerDay ELSE df[i][c]]]

show_global_command(shown, stores, range) ==
    LET health_data == get_filtered_health_data(business_health, stores, range)
    IN  /\ Displayed("Global Command Center", health_data,
               shown \cup (IF health_data = <<>> THEN {"No data available"} ELSE {}))
        /\ UNCHANGED session_frames

\* variant: show_theft_trends adds its column to the frame of the session
show_theft_analytics_inplace(shown, stores, range) ==
    LET td == get_filtered_theft_data(theft_data, stores, range)
    IN  /\ Displayed("Theft Analytics",
               IF td = <<>> THEN td ELSE WithDate(td),
               shown \cup (IF td = <<>> THEN {"No theft data available"} ELSE {}))
        /\ theft_data' = IF td = <<>> THEN theft_data ELSE WithDate(theft_data)
        /\ UNCHANGED <<rewards_data, daily_traffic, shift_usage_data,
                       business_health, traffic_patterns, mobile_usage_patterns,
                       store_info, campaign_performance>>

\* show_theft_analytics: the filtered copy; show_theft_trends adds the
\* column date to it
show_theft_analytics(shown, stores, range) ==
    LET td == get_filtered_theft_data(theft_data, stores, range)
    IN  /\ Displayed("Theft Analytics",
               IF td = <<>> THEN td ELSE WithDate(td),
               shown \cup (IF td = <<>> THEN {"No theft data available"} ELSE {}))
        /\ UNCHANGED session_frames

show_rewards_analytics(shown, stores, range) ==
    LET rd == get_filtered_rewards_data(rewards_data, stores, range)
    IN  /\ Displayed("Rewards Program Analytics", rd,
               shown \cup (IF rd = <<>> THEN {"No rewards data available"} ELSE {}))
        /\ UNCHANGED session_frames

\* show_traffic_analytics; show_combined_analysis at its end recomputes hour
\* and day_of_week on a copy of the theft frame filtered by store
show_traffic_analytics(shown, stores, range) ==
    LET tp == get_filtered_traffic_patterns(traffic_patterns, stores)
        dt == get_filtered_daily_traffic(daily_traffic, stores, range)
        td == IF stores # {} THEN FilterStore(theft_data, stores) ELSE theft_data
    IN  /\ IF tp = <<>> \/ dt = <<>>
           THEN Displayed("Store Visit & Traffic Analytics",
                          [traffic |-> dt, theft |-> <<>>],
                          shown \cup {"No traffic data available"})
           ELSE Displayed("Store Visit & Traffic Analytics",
                          [traffic |-> dt, theft |-> WithHourAndDay(td)],
                          shown \cup (IF td = <<>>
                                      THEN {"Insufficient data for correlation analysis."}
                                      ELSE {}))
        /\ UNCHANGED session_frames

show_employee_analytics(shown, stores, range) ==
    LET mp == get_filtered_mobile_patterns(mobile_usage_patterns, stores)
        sd == get_filtered_shift_data(shift_usage_data, stores, range)
    IN  /\ Displayed("Employee Productivity", sd,
               shown \cup (IF mp = <<>> \/ sd = <<>>
                           THEN {"No employee data available"} ELSE {}))
        /\ UNCHANGED session_frames

\* show_ai_assistant reads the frames and keeps its own chat history
show_ai_assistant(shown) ==
    /\ Displayed("AI Assistant", NoValue, shown)
    /\ UNCHANGED session_frames

\* variant: the page does not look at the role
database_admin_allowed_any(role) == TRUE

\* if st.session_state.user_role != "Owner": st.warning(...); return
database_admin_allowed(role) == role = "Owner"

\* variant: the first press already generates
demo_confirmed_always(flag) == TRUE

\* if st.session_state.get('show_demo_warning', False):
demo_confirmed(flag) == flag

Buttons == {"none", "Save Data to Database", "Load Data from Database",
            "Generate New Demo Data"}

\* the draws of generate_demo_data behind the button
ButtonDraws == {d \in DemoDraws : d.value = 20 /\ d.health = <<80, 80, 80, 80>>}

\* show_database_admin with the button that is pressed in the run, if any
show_database_admin(shown, button, draw, fail, fail_at) ==
    /\ Ran("Database Admin", NoValue, NoValue, NoValue, NoValue, NoValue, NoValue)
    /\ IF ~database_admin_allowed(user_role)
       THEN /\ messages' = shown \cup
                    {"You need Owner privileges to access this page."}
            /\ UNCHANGED <<session_frames, db, next_id, show_demo_warning>>
       ELSE CASE button = "Save Data to Database" ->
                   /\ db' = SavedDb(db, next_id, fail)
                   /\ next_id' = [t \in Tables |->
                         next_id[t] + Cardinality(DOMAIN db'[t] \ DOMAIN db[t])]
                   /\ messages' = shown \cup
                         {IF fail = "none"
                          THEN "Data successfully saved to the database!"
                          ELSE "Failed to save data to the database."}
                   /\ UNCHANGED <<session_frames, show_demo_warning>>
              [] button = "Load Data from Database" ->
                   /\ AssignFrames(LoadedFrames(SessionFrames, fail_at))
                   /\ messages' = shown \cup
                         {IF ~LoadsNothing(fail_at)
                               /\ FailIndex(fail_at) > Len(TableOrder)
                          THEN "Data successfully loaded from the database!"
                          ELSE "Failed to load data from the database or no data available."}
                   /\ UNCHANGED <<db, next_id, show_demo_warning>>
              [] button = "Generate New Demo Data" ->
                   IF demo_confirmed(show_demo_warning)
                   THEN /\ show_demo_warning' = FALSE
                        /\ AssignFrames(DemoFrames(draw))
                        /\ messages' = shown \cup
                              {"New demo data generated successfully!"}
                        /\ UNCHANGED <<db, next_id>>
                   ELSE /\ show_demo_warning' = TRUE
                        /\ messages' = shown \cup {"Press again to confirm."}
                        /\ UNCHANGED <<session_frames, db, next_id>>
              [] button = "none" ->
                   /\ messages' = shown
                   /\ UNCHANGED <<session_frames, db, next_id, show_demo_warning>>

\* a run that reaches the dispatch on active_module: the sidebar, then the
\* page
Render(date_input, store_input, button, draw, fail, fail_at) ==
    /\ user_role # NoValue
    /\ Sidebar(date_input, store_input)
    /\ LET shown == SidebarMessages(date_input)
           stores == selected_stores'
           range == date_range'
       IN  CASE active_module = "Global Command Center" ->
                   show_global_command(shown, stores, range)
             [] active_module = "Theft Analytics" ->
                   show_theft_analytics(shown, stores, range)
             [] active_module = "Rewards Program Analytics" ->
                   show_rewards_analytics(shown, stores, range)
             [] active_module = "Store Visit & Traffic Analytics" ->
                   show_traffic_analytics(shown, stores, range)
             [] active_module = "Employee Productivity" ->
                   show_employee_analytics(shown, stores, range)
             [] active_module = "AI Assistant" ->
                   show_ai_assistant(shown)
             [] active_module = "Database Admin" ->
                   show_database_admin(shown, button, draw, fail, fail_at)
    /\ UNCHANGED <<user_role, active_module, login_store, ui_idle>>

InitUi == \E draw \in ButtonDraws : InitSession(draw)

NextUi ==
    \/ \E role \in {"Owner", "Manager"}, store \in Range(get_store_names),
          pressed \in BOOLEAN : show_login_screen(role, store, pressed)
    \/ Logout
    \/ \E module \in Modules("Owner") :
          Navigate(DefaultDate, DefaultStores, module)
    \/ \E date_input \in DateInputs, store_input \in StoreInputs :
          Render(date_input, store_input, "none", CHOOSE d \in ButtonDraws : TRUE,
                 "none", "none")
    \/ \E fail \in {"none", "records"} :
          /\ active_module = "Database Admin"
          /\ SaveFitsStores
          /\ Render(DefaultDate, DefaultStores, "Save Data to Database",
                    CHOOSE d \in ButtonDraws : TRUE, fail, "none")
    \/ \E fail_at \in {"none"} :
          /\ active_module = "Database Admin"
          /\ Render(DefaultDate, DefaultStores, "Load Data from Database",
                    CHOOSE d \in ButtonDraws : TRUE, "none", fail_at)
    \/ \E draw \in ButtonDraws :
          /\ active_module = "Database Admin"
          /\ Render(DefaultDate, DefaultStores, "Generate New Demo Data",
                    draw, "none", "none")

SpecUi == InitUi /\ [][NextUi]_vars

\* the five analytics modules
AnalyticsModules ==
    {"Global Command Center", "Theft Analytics", "Rewards Program Analytics",
     "Store Visit & Traffic Analytics", "Employee Productivity"}

\* C22: a run that renders an analytics module, under any selection and
\* date range, leaves every frame of the session as it was, and the column
\* date that show_theft_trends derives is in the filtered copy only.
C22_RenderKeepsSession ==
    [][view' \in AnalyticsModules =>
          /\ UNCHANGED session_frames
          /\ \A i \in 1..Len(theft_data') : "date" \notin DOMAIN theft_data'[i]]_vars

\* C22 witness: the theft page displayed a row with the derived column date
\* while the row of the session has none.
C22_Witness ==
    /\ view = "Theft Analytics"
    /\ filtered # <<>>
    /\ "date" \in DOMAIN filtered[1]
    /\ theft_data # <<>>
    /\ "date" \notin DOMAIN theft_data[1]

\* C25: whenever a module is rendered for a Manager, selected_stores is
\* exactly the one store selected_store, and that is the store of the select
\* box of the login screen at the login.
C25_ManagerSeesOwnStore ==
    (view \in Modules("Owner") /\ user_role = "Manager") =>
        /\ selected_stores = {selected_store}
        /\ selected_store = login_store

\* C25 witness: a Manager who chose the second store at the login is shown
\* the theft page of that store.
C25_Witness ==
    /\ view = "Theft Analytics"
    /\ user_role = "Manager"
    /\ login_store = "Riverside Convenience"
    /\ selected_stores = {"Riverside Convenience"}

\* the alerts that report a save, a load or a generation
AdminOutcomes ==
    {"Data successfully saved to the database!",
     "Failed to save data to the database.",
     "Data successfully loaded from the database!",
     "Failed to load data from the database or no data available.",
     "New demo data generated successfully!", "Press again to confirm."}

\* C26: in a run with a role other than Owner the Database Admin page calls
\* none of save_data_to_db, load_data_from_db and generate_demo_data: the
\* frames, the database and the warning flag stay and no outcome of the
\* three is displayed.
C26_OnlyOwnerAdministers ==
    [][user_role # "Owner" =>
          /\ UNCHANGED <<session_frames, db, next_id, show_demo_warning>>
          /\ messages' \cap AdminOutcomes = {}]_vars

\* C26 witness: a Manager whose active module is still Database Admin, from
\* the session of an Owner, is shown the refusal.
C26_Witness ==
    /\ user_role = "Manager"
    /\ active_module = "Database Admin"
    /\ view = "Database Admin"
    /\ "You need Owner privileges to access this page." \in messages

\* C27: a press of Generate New Demo Data regenerates only when
\* show_demo_warning is already true and then resets it; a press with the
\* flag false sets the flag and leaves the frames; nothing else changes the
\* flag, so two regenerations have a warning press between them.
C27_GenerateNeedsConfirmation ==
    [][/\ "New demo data generated successfully!" \in messages' =>
             (show_demo_warning /\ ~show_demo_warning')
       /\ "Press again to confirm." \in messages' =>
             (~show_demo_warning /\ show_demo_warning'
                /\ UNCHANGED session_frames)
       /\ show_demo_warning' # show_demo_warning =>
             (messages' \cap {"New demo data generated successfully!",
                              "Press again to confirm."} # {})]_vars

\* C27 witness: the data was regenerated and the flag is reset.
C27_Witness ==
    /\ view = "Database Admin"
    /\ "New demo data generated successfully!" \in messages
    /\ ~show_demo_warning

\* C28: whenever a module is rendered, selected_stores is not empty.
C28_SelectionNotEmpty ==
    view \in Modules("Owner") => (user_role # NoValue /\ selected_stores # {})

\* C28 witness: an Owner who emptied the multiselect is shown the first
\* store.
C28_Witness ==
    /\ view = "Global Command Center"
    /\ user_role = "Owner"
    /\ selected_stores = {get_store_names[1]}

\* start and end of date_range are of one kind and in order
DateOrdered ==
    /\ date_range[1][1] = date_range[2][1]
    /\ date_range[1][2] <= date_range[2][2]

\* C29: in every state date_range is a pair with start <= end, and a run
\* whose Custom period has its start after its end leaves date_range as it
\* was.
C29_DateRangeOrdered ==
    /\ []DateOrdered
    /\ [][("End date must be after start date" \in messages')
             => UNCHANGED date_range]_vars

\* C29 witness: a Custom period with start after end was refused while
\* date_range held the period of Today.
C29_Witness ==
    /\ "End date must be after start date" \in messages
    /\ date_range = <<DateTimeValue(Midnight(EveningInstant + 1)),
                      DateTimeValue(EveningInstant + 1)>>

(***************************************************************************)
(* The stores table under repeated saves                                   *)
(***************************************************************************)

MaxSavedStores == 4     \* rows of the stores table: room for two saves

NextStores ==
    \/ /\ next_id.stores + Len(store_info) - 1 <= MaxSavedStores
       /\ save_data_to_db("none")
    \/ load_data_from_db("none")
    \/ \E campaign \in EnhancedCampaigns :
          generate_enhanced_data([slot \in EnhancedSlots |-> <<80, 80, 80, 80, 80>>],
                                 [start |-> 500, new |-> [k \in 1..NumEnhancedDays |-> 1]],
                                 [date |-> 1, hour |-> 6], campaign)

SpecStores == InitPersist /\ [][NextStores]_vars

\* C30: after any sequence of save_data_to_db, load_data_from_db and
\* generate_enhanced_data the stores table holds at most one row per store
\* name.
C30_OneRowPerStoreName ==
    \A i, j \in DOMAIN db.stores :
        db.stores[i].name = db.stores[j].name => i = j

====
